---- MODULE Spec2Model ----
(***************************************************************************)
(* Model of the transcript-acquisition code of media-transcript-analyzer:  *)
(* the caption XML parser, the YouTube URL resolver, the platform          *)
(* detector, the three getTranscript implementations, the handlers         *)
(* youtube-summarize, youtube-generic-url and youtube-file-transcribe, and *)
(* on the browser side ContextManager and the upload page.                 *)
(*                                                                         *)
(* JavaScript strings are modelled as sequences of one-character strings,  *)
(* so that the regular expressions and replacements of the source are      *)
(* computed character by character.                                        *)
(***************************************************************************)
EXTENDS Integers, Sequences, FiniteSets, TLC

VARIABLES
    xml, out, out2, pstage,     \* the parser run on its own
    fn,                         \* which function handles the request
    url,                        \* youtubeUrl / videoUrl of the request body
    pc,                         \* the await the handler is suspended at
    videoId,                    \* extractVideoId(youtubeUrl)
    langIdx,                    \* position of the for loop over langs
    directOutcomes,             \* what each timed-text response amounted to
    track,                      \* captionTrack
    rapidApiKey,                \* const rapidApiKey: unread, set or unset
    transcript,                 \* const transcript of the handler
    source,                     \* the strategy that returned it
    requests,                   \* the requests sent so far, in order
    response,                   \* the Response the handler returned
    platform,                   \* detectPlatform(videoUrl)
    downloadUrl,                \* which API gave the download URL
    fileName, mimeType,         \* fileName and mimeType of the request body
    fileData,                   \* fileData of the request body
    audioFile,                  \* the File made by base64ToFile
    reply,                      \* the collaborator response last looked at
    running,                    \* the invocation whose locals the variables above hold
    other,                      \* the locals of the invocation suspended at an await
    stored,                     \* localStorage item 'media-analyzer-context'
    added,                      \* the items added since the last clearContext
    nextId,                     \* number of the next ConversationItem
    latest,                     \* what getLatestTranscription returned last
    isLoading, uploadProgress,  \* state of the upload page (useState)
    selectedFile, fileError, result,
    submitPc,                   \* the await handleFileSubmit is suspended at
    submission,                 \* number of handleFileSubmit calls so far
    timers                      \* submissions whose setTimeout has not fired yet

parseVars == <<xml, out, out2, pstage>>

uploadVars == <<fileName, mimeType, fileData, audioFile>>

schedVars == <<running, other>>

handlerVars ==
    <<fn, url, pc, videoId, langIdx, directOutcomes, track, rapidApiKey,
      transcript, source, requests, response, platform, downloadUrl,
      uploadVars, reply, schedVars>>

contextVars == <<stored, added, nextId, latest>>

pageVars ==
    <<isLoading, uploadProgress, selectedFile, fileError, result, submitPc,
      submission, timers>>

clientVars == <<contextVars, pageVars>>

vars == <<parseVars, handlerVars, clientVars>>

(***************************************************************************)
(* Bounds of the model.                                                    *)
(***************************************************************************)
\* Longest generated caption document, counted in pieces of XmlPieces.
MaxPieces == 4
\* Longest generated URL, counted in pieces of UrlPieces.
MaxUrlPieces == 2
\* Longest caption-track list of a video page.
MaxTracks == 2
\* Longest segment list of the third-party transcript API.
MaxSegments == 2
\* Most ConversationItems made in one run of the context manager.
MaxAdded == 11
\* Most file submissions in one run of the upload page.
MaxSubmissions == 4

(***************************************************************************)
(* Program constants.                                                      *)
(***************************************************************************)
\* transcript.length < 10
MinTranscriptLength == 10
\* private static readonly MAX_ITEMS = 10
MAX_ITEMS == 10

(***************************************************************************)
(* String helpers (semantics of the JavaScript built-ins the source uses). *)
(***************************************************************************)
\* s.startsWith(p, i-1): the literal p occurs in s at (1-based) position i.
StartsWithAt(s, i, p) ==
    /\ i >= 1
    /\ i + Len(p) - 1 <= Len(s)
    /\ SubSeq(s, i, i + Len(p) - 1) = p

\* Smallest position j >= i with s[j] = c, or 0 when there is none.
IndexOfChar(s, c, i) ==
    LET hits == {j \in i..Len(s) : s[j] = c}
    IN  IF hits = {} THEN 0 ELSE CHOOSE j \in hits : \A k \in hits : j <= k

\* Smallest position j >= i where the literal p occurs, or 0.
IndexOfLit(s, p, i) ==
    LET hits == {j \in i..Len(s) : StartsWithAt(s, j, p)}
    IN  IF hits = {} THEN 0 ELSE CHOOSE j \in hits : \A k \in hits : j <= k

\* s.includes(p)
Includes(s, p) == IndexOfLit(s, p, 1) # 0

\* Characters String.prototype.trim removes (those that occur in the model).
WhiteSpace == {" ", "\n", "\t"}

\* Characters the regular-expression dot does not match (no s flag).
LineTerminators == {"\n", "\r"}

RECURSIVE TrimLeft(_)
TrimLeft(s) ==
    IF s # <<>> /\ Head(s) \in WhiteSpace THEN TrimLeft(Tail(s)) ELSE s

RECURSIVE TrimRight(_)
TrimRight(s) ==
    IF s # <<>> /\ s[Len(s)] \in WhiteSpace
    THEN TrimRight(SubSeq(s, 1, Len(s) - 1))
    ELSE s

\* Mutant of Trim: nothing is removed.
TrimOmitted(s) == s

\* s.trim()
Trim(s) == TrimRight(TrimLeft(s))

\* s.replace(/pat/g, rep) for a literal pattern pat: left to right, non-overlapping.
RECURSIVE ReplaceAllFrom(_, _, _, _)
ReplaceAllFrom(s, i, pat, rep) ==
    IF i > Len(s) THEN <<>>
    ELSE IF StartsWithAt(s, i, pat)
         THEN rep \o ReplaceAllFrom(s, i + Len(pat), pat, rep)
         ELSE <<s[i]>> \o ReplaceAllFrom(s, i + 1, pat, rep)

ReplaceAll(s, pat, rep) == ReplaceAllFrom(s, 1, pat, rep)

(***************************************************************************)
(* Literals of the parser.                                                 *)
(***************************************************************************)
TextOpenPrefix == <<"<", "t", "e", "x", "t">>
TextCloseTag == <<"<", "/", "t", "e", "x", "t", ">">>
EntAmp == <<"&", "a", "m", "p", ";">>
EntLt == <<"&", "l", "t", ";">>
EntGt == <<"&", "g", "t", ";">>
EntQuot == <<"&", "q", "u", "o", "t", ";">>
EntApos == <<"&", "#", "3", "9", ";">>
EntNbsp == <<"&", "n", "b", "s", "p", ";">>

(***************************************************************************)
(* parseTranscriptXML                                                      *)
(***************************************************************************)
\* One attempt of /<text[^>]*>(.*?)<\/text>/ at position i.  [^>]* stops at the
\* first ">", the lazy (.*?) at the first "</text>", and the dot does not match
\* a line terminator, so a line terminator before that "</text>" defeats the
\* attempt.
MatchTextAt(s, i) ==
    LET gt == IF StartsWithAt(s, i, TextOpenPrefix)
              THEN IndexOfChar(s, ">", i + Len(TextOpenPrefix))
              ELSE 0
        close == IF gt = 0 THEN 0 ELSE IndexOfLit(s, TextCloseTag, gt + 1)
        ok == /\ gt # 0
              /\ close # 0
              /\ \A k \in (gt + 1)..(close - 1) : s[k] \notin LineTerminators
    IN  [found |-> ok,
         group |-> IF ok THEN SubSeq(s, gt + 1, close - 1) ELSE <<>>,
         next |-> IF ok THEN close + Len(TextCloseTag) ELSE i + 1]

\* xml.matchAll(/<text[^>]*>(.*?)<\/text>/g): the capture groups, in order.
RECURSIVE TextMatchesFrom(_, _)
TextMatchesFrom(s, i) ==
    IF i > Len(s) THEN <<>>
    ELSE LET m == MatchTextAt(s, i)
         IN  IF m.found
             THEN <<m.group>> \o TextMatchesFrom(s, m.next)
             ELSE TextMatchesFrom(s, i + 1)

TextMatches(s) == TextMatchesFrom(s, 1)

\* s.replace(/<[^>]+>/g, ''): a "<", at least one character other than ">", a ">".
RECURSIVE StripTagsFrom(_, _)
StripTagsFrom(s, i) ==
    IF i > Len(s) THEN <<>>
    ELSE LET gt == IF s[i] = "<" THEN IndexOfChar(s, ">", i + 1) ELSE 0
         IN  IF gt >= i + 2
             THEN StripTagsFrom(s, gt + 1)
             ELSE <<s[i]>> \o StripTagsFrom(s, i + 1)

\* Mutant of StripTags: the tag-stripping replace is left out.
StripTagsOmitted(s) == s

StripTags(s) == StripTagsFrom(s, 1)

\* The replace chain and trim applied to one capture group.
CleanSpan(g) ==
    LET a == ReplaceAll(g, EntAmp, <<"&">>)
        b == ReplaceAll(a, EntLt, <<"<">>)
        c == ReplaceAll(b, EntGt, <<">">>)
        d == ReplaceAll(c, EntQuot, <<"\"">>)
        e == ReplaceAll(d, EntApos, <<"'">>)
        f == ReplaceAll(e, EntNbsp, <<" ">>)
        h == StripTags(f)
        n == ReplaceAll(h, <<"\n">>, <<" ">>)
    IN  Trim(n)

\* The loop "if (text) transcript += text + ' '" over the capture groups.
RECURSIVE JoinSpans(_)
JoinSpans(groups) ==
    IF groups = <<>> THEN <<>>
    ELSE LET text == CleanSpan(Head(groups))
         IN  (IF text # <<>> THEN text \o <<" ">> ELSE <<>>) \o JoinSpans(Tail(groups))

\* A JavaScript value handed to the parser: a string, or undefined.
JsString(s) == [t |-> "string", s |-> s]
JsUndefined == [t |-> "undefined", s |-> <<>>]

\* The try block of parseTranscriptXML: xml.matchAll throws a TypeError when
\* xml is not a string; nothing else in the block can throw.
ParseTryBlock(v) ==
    IF v.t # "string"
    THEN [threw |-> TRUE, value |-> <<>>]
    ELSE [threw |-> FALSE, value |-> Trim(JoinSpans(TextMatches(v.s)))]

\* Mutant of parseTranscriptXML: no try/catch around the body.
parseTranscriptXMLNoCatch(v) == ParseTryBlock(v)

\* parseTranscriptXML(xml): the try block, and '' from the catch clause.
\* threw tells whether an exception left the function.
parseTranscriptXML(v) ==
    LET r == ParseTryBlock(v)
    IN  IF r.threw
        THEN [threw |-> FALSE, value |-> <<>>]
        ELSE [threw |-> FALSE, value |-> r.value]

(***************************************************************************)
(* Caption documents the parser is run on.                                 *)
(***************************************************************************)
TextOpen == TextOpenPrefix \o <<">">>

\* Building blocks of the generated documents.
XmlPieces ==
    { TextOpen, TextCloseTag, <<"a">>, <<" ">>, <<"\n">>, EntAmp,
      <<"l", "t", ";">>, <<"<", "b", ">">> }

RECURSIVE Concats(_, _)
Concats(pieces, n) ==
    IF n = 0 THEN {<<>>}
    ELSE LET shorter == Concats(pieces, n - 1)
         IN  shorter \cup {p \o s : p \in pieces, s \in shorter}

\* <text>A &amp; B</text><text>C</text>
DocAmp ==
    TextOpen \o <<"A", " ">> \o EntAmp \o <<" ", "B">> \o TextCloseTag
    \o TextOpen \o <<"C">> \o TextCloseTag

\* <text start="1">&lt;b&gt;x&lt;/b&gt; &quot;q&quot; &#39;s&#39;&nbsp;</text>
DocEntities ==
    TextOpenPrefix \o <<" ", "s", "=", "\"", "1", "\"", ">">>
    \o EntLt \o <<"b">> \o EntGt \o <<"x">> \o EntLt \o <<"/", "b">> \o EntGt
    \o <<" ">> \o EntQuot \o <<"q">> \o EntQuot \o <<" ">>
    \o EntApos \o <<"s">> \o EntApos \o EntNbsp \o TextCloseTag

\* <text>a\nb</text><text>c</text>
DocNewline ==
    TextOpen \o <<"a", "\n", "b">> \o TextCloseTag
    \o TextOpen \o <<"c">> \o TextCloseTag

\* <text>&lt;text&gt;hi&lt;/text&gt;</text>
DocEncodedSpan ==
    TextOpen \o EntLt \o <<"t", "e", "x", "t">> \o EntGt \o <<"h", "i">>
    \o EntLt \o <<"/", "t", "e", "x", "t">> \o EntGt \o TextCloseTag

XmlDocs ==
    Concats(XmlPieces, MaxPieces) \cup {DocAmp, DocEntities, DocNewline, DocEncodedSpan}

ParserInputs == {JsString(d) : d \in XmlDocs} \cup {JsUndefined}

NoResult == [done |-> FALSE, threw |-> FALSE, value |-> <<>>]

Finished(r) == [done |-> TRUE, threw |-> r.threw, value |-> r.value]

(***************************************************************************)
(* URL resolution: extractVideoId and detectPlatform.                      *)
(***************************************************************************)
\* youtube.com/watch?v=
WatchPrefix ==
    <<"y", "o", "u", "t", "u", "b", "e", ".", "c", "o", "m", "/", "w", "a", "t", "c", "h",
        "?", "v", "=">>
\* youtu.be/
ShortPrefix == <<"y", "o", "u", "t", "u", ".", "b", "e", "/">>
\* youtube.com/embed/
EmbedPrefix ==
    <<"y", "o", "u", "t", "u", "b", "e", ".", "c", "o", "m", "/", "e", "m", "b", "e", "d", "/">>

\* The characters the capture group ([^&\n?#]+) stops at.
IdStop == {"&", "\n", "?", "#"}

\* ([^&\n?#]+) tried at position j: the longest run of other characters.
RECURSIVE RunUntilStop(_, _)
RunUntilStop(s, j) ==
    IF j > Len(s) \/ s[j] \in IdStop
    THEN <<>>
    ELSE <<s[j]>> \o RunUntilStop(s, j + 1)

\* url.match(/(?:p1|p2)([^&\n?#]+)/) for literal alternatives p1, p2, ...: the
\* leftmost position where an alternative (the first that fits) is followed
\* by a non-empty run, and that run as capture group 1.
MatchPrefixCapture(s, prefixes) ==
    LET fits(i, k) == /\ StartsWithAt(s, i, prefixes[k])
                      /\ RunUntilStop(s, i + Len(prefixes[k])) # <<>>
        hits == {i \in 1..Len(s) : \E k \in 1..Len(prefixes) : fits(i, k)}
    IN  IF hits = {}
        THEN [found |-> FALSE, group |-> <<>>]
        ELSE LET i == CHOOSE h \in hits : \A g \in hits : h <= g
                 ks == {k \in 1..Len(prefixes) : fits(i, k)}
                 k == CHOOSE a \in ks : \A b \in ks : a <= b
             IN  [found |-> TRUE, group |-> RunUntilStop(s, i + Len(prefixes[k]))]

\* The patterns array of extractVideoId, in order.
patterns == << <<WatchPrefix, ShortPrefix>>, <<EmbedPrefix>> >>

\* Mutant of extractVideoId: the patterns are tried in the reverse order.
extractVideoIdReversed(u) ==
    LET m1 == MatchPrefixCapture(u, patterns[1])
        m2 == MatchPrefixCapture(u, patterns[2])
    IN  IF m2.found THEN m2 ELSE m1

\* extractVideoId(u): capture group 1 of the first pattern that matches, or
\* null (found = FALSE).
extractVideoId(u) ==
    LET m1 == MatchPrefixCapture(u, patterns[1])
        m2 == MatchPrefixCapture(u, patterns[2])
    IN  IF m1.found THEN m1 ELSE m2

\* String.prototype.toLowerCase, on the upper-case letters the model's URLs use.
ToLowerChar(c) ==
    CASE c = "Y" -> "y"
      [] c = "T" -> "t"
      [] c = "V" -> "v"
      [] c = "X" -> "x"
      [] OTHER -> c

ToLowerCase(s) == [i \in 1..Len(s) |-> ToLowerChar(s[i])]

\* The marker table of detectPlatform, in the order of its if statements.
PlatformMarkers ==
    << [platform |-> "youtube", marker |-> <<"y", "o", "u", "t", "u", "b", "e", ".", "c", "o",
        "m">>],
       [platform |-> "youtube", marker |-> <<"y", "o", "u", "t", "u", ".", "b", "e">>],
       [platform |-> "vimeo", marker |-> <<"v", "i", "m", "e", "o", ".", "c", "o", "m">>],
       [platform |-> "tiktok", marker |-> <<"t", "i", "k", "t", "o", "k", ".", "c", "o", "m">>],
       [platform |-> "instagram", marker |-> <<"i", "n", "s", "t", "a", "g", "r", "a", "m", ".",
           "c", "o", "m">>],
       [platform |-> "twitter", marker |-> <<"t", "w", "i", "t", "t", "e", "r", ".", "c", "o",
           "m">>],
       [platform |-> "twitter", marker |-> <<"x", ".", "c", "o", "m">>],
       [platform |-> "facebook", marker |-> <<"f", "a", "c", "e", "b", "o", "o", "k", ".", "c",
           "o", "m">>],
       [platform |-> "facebook", marker |-> <<"f", "b", ".", "w", "a", "t", "c", "h">>],
       [platform |-> "dailymotion", marker |-> <<"d", "a", "i", "l", "y", "m", "o", "t", "i",
           "o", "n", ".", "c", "o", "m">>],
       [platform |-> "twitch", marker |-> <<"t", "w", "i", "t", "c", "h", ".", "t", "v">>] >>

\* Mutant of detectPlatform: the URL is not lower-cased first.
detectPlatformCaseSensitive(u) ==
    LET hits == {k \in 1..Len(PlatformMarkers) : Includes(u, PlatformMarkers[k].marker)}
    IN  IF hits = {}
        THEN "generic"
        ELSE PlatformMarkers[CHOOSE k \in hits : \A j \in hits : k <= j].platform

\* Mutant of detectPlatform: the last matching marker of the table wins.
detectPlatformLastMatch(u) ==
    LET urlLower == ToLowerCase(u)
        hits == {k \in 1..Len(PlatformMarkers) : Includes(urlLower, PlatformMarkers[k].marker)}
    IN  IF hits = {}
        THEN "generic"
        ELSE PlatformMarkers[CHOOSE k \in hits : \A j \in hits : k >= j].platform

\* detectPlatform(u): the platform of the first marker the lower-cased URL
\* includes, else 'generic'.
detectPlatform(u) ==
    LET urlLower == ToLowerCase(u)
        hits == {k \in 1..Len(PlatformMarkers) : Includes(urlLower, PlatformMarkers[k].marker)}
    IN  IF hits = {}
        THEN "generic"
        ELSE PlatformMarkers[CHOOSE k \in hits : \A j \in hits : k <= j].platform

(***************************************************************************)
(* URLs the handlers are invoked with.                                     *)
(***************************************************************************)
\* Building blocks of the generated URLs: youtu.be/, abc, &t=1
UrlPieces ==
    { ShortPrefix, <<"a", "b", "c">>, <<"&", "t", "=", "1">> }

\* https://youtu.be/abc123XYZ
UrlShortExample == <<"h", "t", "t", "p", "s", ":", "/", "/", "y", "o", "u", "t", "u",
    ".", "b", "e", "/", "a", "b", "c", "1", "2", "3", "X", "Y", "Z">>

\* https://www.youtube.com/watch?v=abc&t=1
UrlWatch == <<"h", "t", "t", "p", "s", ":", "/", "/", "w", "w", "w", ".", "y", "o", "u",
    "t", "u", "b", "e", ".", "c", "o", "m", "/", "w", "a", "t", "c", "h", "?", "v", "=",
    "a", "b", "c", "&", "t", "=", "1">>

\* https://www.youtube.com/embed/abc?youtu.be/x
UrlEmbedFirst == <<"h", "t", "t", "p", "s", ":", "/", "/", "w", "w", "w", ".", "y", "o",
    "u", "t", "u", "b", "e", ".", "c", "o", "m", "/", "e", "m", "b", "e", "d", "/", "a",
    "b", "c", "?", "y", "o", "u", "t", "u", ".", "b", "e", "/", "x">>

\* https://www.youtube.com/embed/abc
UrlEmbed == <<"h", "t", "t", "p", "s", ":", "/", "/", "w", "w", "w", ".">> \o EmbedPrefix
    \o <<"a", "b", "c">>

\* https://YouTu.be/abc
UrlUpperCase == <<"h", "t", "t", "p", "s", ":", "/", "/", "Y", "o", "u", "T", "u", ".",
    "b", "e", "/", "a", "b", "c">>

\* https://vimeo.com/123
UrlVimeo == <<"h", "t", "t", "p", "s", ":", "/", "/", "v", "i", "m", "e", "o", ".", "c",
    "o", "m", "/", "1", "2", "3">>

\* https://example.org/video.mp4
UrlUnsupported == <<"h", "t", "t", "p", "s", ":", "/", "/", "e", "x", "a", "m", "p",
    "l", "e", ".", "o", "r", "g", "/", "v", "i", "d", "e", "o", ".", "m", "p", "4">>

UrlExamples ==
    {UrlShortExample, UrlWatch, UrlEmbed, UrlEmbedFirst, UrlUpperCase, UrlVimeo,
     UrlUnsupported}

Urls == Concats(UrlPieces, MaxUrlPieces) \cup UrlExamples

(***************************************************************************)
(* Responses of the collaborators (inputs of the handlers).                *)
(***************************************************************************)
\* What an awaited fetch gives: a thrown transport error, or a response with a
\* status and a body.
FetchResults(bodies) ==
    {[threw |-> TRUE, status |-> 0, body |-> <<>>]}
    \cup {[threw |-> FALSE, status |-> s, body |-> b] : s \in {200, 404}, b \in bodies}

\* response.ok
Ok(r) == r.status \in 200..299

Doc(text) == TextOpen \o text \o TextCloseTag

TextHi == <<"H", "i">>
TextTen == <<"0", "1", "2", "3", "4", "5", "6", "7", "8", "9">>
TextEleven == <<"h", "e", "l", "l", "o", " ", "w", "o", "r", "l", "d">>

\* Bodies of the timed-text and caption endpoints: empty, markup without a
\* <text> tag, an empty span, and spans of 2, 10 and 11 characters.
CaptionBodies ==
    { <<>>, <<"<", "x", ">">>, Doc(<<>>), Doc(TextHi), Doc(TextTen), Doc(TextEleven) }

\* Language codes: en, en-US, en-GB, fr.
LangEn == <<"e", "n">>
LangEnUS == <<"e", "n", "-", "U", "S">>
LangEnGB == <<"e", "n", "-", "G", "B">>
LangFr == <<"f", "r">>

\* Language codes of the caption tracks of a page.
LangCodes == {LangEnUS, LangEnGB, LangFr}

\* A caption-track list: tracks[k] has languageCode codes[k] and baseUrl k.
TrackLists == UNION {[1..k -> LangCodes] : k \in 0..MaxTracks}

CaptionTrack(codes, k) == [languageCode |-> codes[k], baseUrl |-> k]
NoTrack == [languageCode |-> <<>>, baseUrl |-> 0]

\* A video page, as the two scrapers see it: raw is what
\* /"captionTracks":(\[.*?\])/ and JSON.parse make of it, player what
\* /var ytInitialPlayerResponse = ({.+?});/ and JSON.parse make of it.  The
\* last pages hold a caption-track array in their text but no usable
\* ytInitialPlayerResponse.
PageHtmls ==
    { [raw |-> "absent", player |-> "absent", tracks |-> <<>>],
      [raw |-> "absent", player |-> "nocaptions", tracks |-> <<>>],
      [raw |-> "unparsable", player |-> "unparsable", tracks |-> <<>>],
      [raw |-> "unparsable", player |-> "absent", tracks |-> <<>>] }
    \cup {[raw |-> "array", player |-> "tracks", tracks |-> ts] : ts \in TrackLists}
    \cup {[raw |-> "array", player |-> p, tracks |-> ts] :
            p \in {"absent", "unparsable"}, ts \in {l \in TrackLists : Len(l) = 1}}

PageResults ==
    {[threw |-> TRUE, status |-> 0, html |-> CHOOSE h \in PageHtmls : TRUE]}
    \cup {[threw |-> FALSE, status |-> s, html |-> h] : s \in {200, 404}, h \in PageHtmls}

\* Bodies of the third-party transcript API: unparsable JSON, JSON without a
\* transcript array, or a transcript array of segments.
SegmentTexts == {<<>>, <<" ">>, TextHi}
RapidPayloads ==
    {[kind |-> k, segments |-> <<>>] : k \in {"malformed", "noarray"}}
    \cup {[kind |-> "array", segments |-> s] :
            s \in UNION {[1..k -> SegmentTexts] : k \in 0..MaxSegments}}

RapidResults ==
    {[threw |-> TRUE, status |-> 0, payload |-> [kind |-> "malformed", segments |-> <<>>]]}
    \cup {[threw |-> FALSE, status |-> s, payload |-> p] : s \in {200, 404}, p \in RapidPayloads}

\* Answers of the chat-completions endpoint.
OpenAIResults ==
    {[threw |-> TRUE, status |-> 0, payload |-> "none"]}
    \cup {[threw |-> FALSE, status |-> s, payload |-> p] :
            s \in {200, 404}, p \in {"malformed", "nochoices", "completion"}}

(***************************************************************************)
(* Handler responses.                                                      *)
(***************************************************************************)
NoResponse == [status |-> 0, kind |-> "pending", error |-> "none", upstream |-> 0]
Success == [status |-> 200, kind |-> "result", error |-> "none", upstream |-> 0]
Failure(st, tag, up) == [status |-> st, kind |-> "error", error |-> tag, upstream |-> up]

\* The collaborator response a handler looked at last, and who sent it: the
\* scraped video page (until its caption document has arrived), the
\* third-party transcript API or the speech-to-text endpoint.
Reply(from, r) == [from |-> from, r |-> r]
NoReply == [from |-> "none", r |-> <<>>]

\* let audioFile: no File has been made.
NoFile == [size |-> 0, type |-> "none"]
NoFileData == [present |-> FALSE, decodes |-> FALSE, byteLength |-> 0]

\* No second invocation is in flight.
NoInvocation == [fn |-> "none"]

\* The three getTranscript implementations and the generic-URL function.
Functions == {"timedtext", "scrape", "rapidapi", "generic"}

\* Mutant of langs: en-US is asked before en.
langsReordered == <<LangEnUS, LangEn, LangEnGB>>

\* const langs = ['en', 'en-US', 'en-GB']
langs == <<LangEn, LangEnUS, LangEnGB>>

TimedTextEndpoint(k) == [endpoint |-> "timedtext", lang |-> langs[k]]
Endpoint(name) == [endpoint |-> name, lang |-> <<>>]

(***************************************************************************)
(* The browser side at rest.                                               *)
(***************************************************************************)
\* localStorage.getItem(STORAGE_KEY) === null
NoStoredContext == [present |-> FALSE, items |-> <<>>]

\* getLatestTranscription has not been called since the last change.
NotAsked == [asked |-> FALSE, found |-> FALSE, item |-> [id |-> 0, type |-> "none"]]

\* No context stored and nothing asked.
ContextIdle ==
    /\ stored = NoStoredContext
    /\ added = <<>>
    /\ nextId = 0
    /\ latest = NotAsked

\* The upload page right after it was mounted: the useState defaults.
PageMounted ==
    /\ isLoading = FALSE
    /\ uploadProgress = 0
    /\ selectedFile = FALSE
    /\ fileError = FALSE
    /\ result = "none"
    /\ submitPc = "idle"
    /\ submission = 0
    /\ timers = {}

ClientIdle ==
    /\ ContextIdle
    /\ submitPc = "off"
    /\ isLoading = FALSE
    /\ uploadProgress = 0
    /\ selectedFile = FALSE
    /\ fileError = FALSE
    /\ result = "none"
    /\ submission = 0
    /\ timers = {}

\* No function is invoked and the parser is not run.
BackendIdle ==
    /\ xml = JsString(<<>>)
    /\ out = NoResult
    /\ out2 = NoResult
    /\ pstage = "off"
    /\ fn = "none"
    /\ url = <<>>
    /\ pc = "off"
    /\ videoId = <<>>
    /\ langIdx = 0
    /\ directOutcomes = <<>>
    /\ track = NoTrack
    /\ rapidApiKey = "unread"
    /\ transcript = <<>>
    /\ source = "none"
    /\ requests = <<>>
    /\ response = NoResponse
    /\ platform = "unknown"
    /\ downloadUrl = "none"
    /\ fileName = <<>>
    /\ mimeType = ""
    /\ fileData = NoFileData
    /\ audioFile = NoFile
    /\ reply = NoReply
    /\ running = 1
    /\ other = NoInvocation

(***************************************************************************)
(* The parser run on one input, then on its own output.                    *)
(***************************************************************************)
ParseInit ==
    /\ xml \in ParserInputs
    /\ out = NoResult
    /\ out2 = NoResult
    /\ pstage = "input"
    /\ fn = "none"
    /\ url = <<>>
    /\ pc = "off"
    /\ videoId = <<>>
    /\ langIdx = 0
    /\ directOutcomes = <<>>
    /\ track = NoTrack
    /\ rapidApiKey = "unread"
    /\ transcript = <<>>
    /\ source = "none"
    /\ requests = <<>>
    /\ response = NoResponse
    /\ platform = "unknown"
    /\ downloadUrl = "none"
    /\ fileName = <<>>
    /\ mimeType = ""
    /\ fileData = NoFileData
    /\ audioFile = NoFile
    /\ reply = NoReply
    /\ running = 1
    /\ other = NoInvocation
    /\ ClientIdle

\* const transcript = parseTranscriptXML(xml)
Parse ==
    /\ pstage = "input"
    /\ out' = Finished(parseTranscriptXML(xml))
    /\ pstage' = "parsed"
    /\ UNCHANGED <<xml, out2, handlerVars, clientVars>>

\* parseTranscriptXML applied to the text an earlier call returned.
Reparse ==
    /\ pstage = "parsed"
    /\ out2' = Finished(parseTranscriptXML(JsString(out.value)))
    /\ pstage' = "reparsed"
    /\ UNCHANGED <<xml, out, handlerVars, clientVars>>

ParseNext == Parse \/ Reparse

SpecParse == ParseInit /\ [][ParseNext]_vars

(***************************************************************************)
(* The youtube-summarize handler with each getTranscript implementation.   *)
(***************************************************************************)
HandlerInit ==
    /\ fn \in Functions
    /\ url \in Urls
    /\ pc = "start"
    /\ videoId = <<>>
    /\ langIdx = 0
    /\ directOutcomes = <<>>
    /\ track = NoTrack
    /\ rapidApiKey = "unread"
    /\ transcript = <<>>
    /\ source = "none"
    /\ requests = <<>>
    /\ response = NoResponse
    /\ platform = "unknown"
    /\ downloadUrl = "none"
    /\ fileName = <<>>
    /\ mimeType = ""
    /\ fileData = NoFileData
    /\ audioFile = NoFile
    /\ reply = NoReply
    /\ running = 1
    /\ other = NoInvocation
    /\ ClientIdle

\* Mutant of Fail: the error leaves the handler, no Response is made.
FailEscapes(st, tag, up) ==
    /\ pc' = "crashed"
    /\ UNCHANGED <<transcript, source, requests, response>>

\* Mutant of Fail: the request that failed is issued once more instead of
\* answering with the error.
FailRetries(st, tag, up) ==
    IF requests = <<>>
    THEN /\ pc' = "done"
         /\ response' = Failure(st, tag, up)
         /\ UNCHANGED <<transcript, source, requests>>
    ELSE /\ requests' = Append(requests, requests[Len(requests)])
         /\ UNCHANGED <<pc, transcript, source, response>>

\* return new Response(JSON.stringify({ error }), { status })
Fail(st, tag, up) ==
    /\ pc' = "done"
    /\ response' = Failure(st, tag, up)
    /\ UNCHANGED <<transcript, source, requests>>

\* getTranscript returned t: the handler's "if (!transcript)", the
\* OPENAI_API_KEY lookup and the chat-completions request.
Deliver(t, src, key) ==
    IF t = <<>>
    THEN Fail(400, "CouldNotExtract", 0)
    ELSE IF ~key
    THEN /\ transcript' = t
         /\ source' = src
         /\ pc' = "done"
         /\ response' = Failure(500, "OpenAIKeyMissing", 0)
         /\ UNCHANGED requests
    ELSE /\ transcript' = t
         /\ source' = src
         /\ pc' = "openai"
         /\ requests' = Append(requests, Endpoint("openai"))
         /\ UNCHANGED response

\* Mutant of Prelude: the result of extractVideoId is not looked at.
PreludeUnchecked(bodyOk) ==
    IF ~bodyOk THEN [go |-> FALSE, status |-> 500, error |-> "BodyParse"]
    ELSE IF url = <<>> THEN [go |-> FALSE, status |-> 400, error |-> "UrlRequired"]
    ELSE [go |-> TRUE, status |-> 0, error |-> "none"]

\* The handler up to the call of getTranscript: req.json(), the empty-URL
\* check and extractVideoId.
Prelude(bodyOk) ==
    IF ~bodyOk THEN [go |-> FALSE, status |-> 500, error |-> "BodyParse"]
    ELSE IF url = <<>> THEN [go |-> FALSE, status |-> 400, error |-> "UrlRequired"]
    ELSE IF ~extractVideoId(url).found
    THEN [go |-> FALSE, status |-> 400, error |-> "InvalidUrlFormat"]
    ELSE [go |-> TRUE, status |-> 0, error |-> "none"]

\* youtube-summarize (timed-text implementation): request received; the
\* first timed-text request is sent.
ReceiveTimedText ==
    /\ fn = "timedtext"
    /\ pc = "start"
    /\ \E bodyOk \in BOOLEAN :
         LET p == Prelude(bodyOk)
         IN  IF ~p.go
             THEN /\ Fail(p.status, p.error, 0)
                  /\ UNCHANGED <<videoId, langIdx>>
             ELSE /\ videoId' = extractVideoId(url).group
                  /\ langIdx' = 1
                  /\ requests' = Append(requests, TimedTextEndpoint(1))
                  /\ pc' = "lang"
                  /\ UNCHANGED <<transcript, source, response>>
    /\ UNCHANGED <<platform, downloadUrl>>
    /\ UNCHANGED <<clientVars, schedVars, parseVars, uploadVars, reply>>
    /\ UNCHANGED <<fn, url, directOutcomes, track, rapidApiKey>>

\* What one timed-text response amounts to in the for loop of getTranscript.
DirectOutcome(r) ==
    IF r.threw THEN "threw"
    ELSE IF ~Ok(r) THEN "non2xx"
    ELSE IF ~(r.body # <<>> /\ Includes(r.body, TextOpenPrefix)) THEN "notags"
    ELSE IF parseTranscriptXML(JsString(r.body)).value = <<>> THEN "emptyparse"
    ELSE "accepted"

\* Mutant of Returns: the loop never returns, a usable transcript is passed over.
ReturnsNever(outcome) == FALSE

\* Mutant of Returns: the loop returns after the first response, whatever it is.
ReturnsAlways(outcome) == TRUE

\* "if (transcript) { return transcript; }" inside the loop.
Returns(outcome) == outcome = "accepted"

\* The timed-text response for langs[langIdx] arrives: return the transcript,
\* or go on to the next language, or, after the last, fetch the video page.
TimedTextResponse ==
    /\ fn = "timedtext"
    /\ pc = "lang"
    /\ \E r \in FetchResults(CaptionBodies), key \in BOOLEAN :
         LET outcome == DirectOutcome(r)
         IN  /\ directOutcomes' = Append(directOutcomes, outcome)
             /\ reply' = IF Returns(outcome) THEN Reply("timedtext", r) ELSE reply
             /\ IF Returns(outcome)
                THEN /\ Deliver(parseTranscriptXML(JsString(r.body)).value, "direct", key)
                     /\ UNCHANGED langIdx
                ELSE IF langIdx < Len(langs)
                THEN /\ langIdx' = langIdx + 1
                     /\ requests' = Append(requests, TimedTextEndpoint(langIdx + 1))
                     /\ UNCHANGED <<pc, transcript, source, response>>
                ELSE /\ requests' = Append(requests, Endpoint("page"))
                     /\ pc' = "page"
                     /\ UNCHANGED <<langIdx, transcript, source, response>>
    /\ UNCHANGED <<platform, downloadUrl>>
    /\ UNCHANGED <<clientVars, schedVars, parseVars, uploadVars>>
    /\ UNCHANGED <<fn, url, videoId, track, rapidApiKey>>

\* captionTracks.find(track => track.languageCode === 'en' ||
\* track.languageCode === 'en-US'), else captionTracks[0].
SelectTrackExact(codes) ==
    LET hits == {k \in 1..Len(codes) : codes[k] = LangEn \/ codes[k] = LangEnUS}
    IN  IF hits = {} THEN 1 ELSE CHOOSE k \in hits : \A j \in hits : k <= j

\* The video page arrives (timed-text implementation): the status is not
\* looked at; the caption-track literal is searched, parsed, a track chosen
\* and its caption document requested.
PageResponseTimedText ==
    /\ fn = "timedtext"
    /\ pc = "page"
    /\ \E r \in PageResults :
         /\ reply' = IF r.threw THEN NoReply ELSE Reply("page", r.html)
         /\ IF r.threw
            THEN Fail(500, "FetchFailed", 0) /\ UNCHANGED track
            ELSE IF r.html.raw = "absent"
            THEN Fail(500, "NoCaptions", 0) /\ UNCHANGED track
            ELSE IF r.html.raw = "unparsable"
            THEN Fail(500, "JsonSyntax", 0) /\ UNCHANGED track
            ELSE IF Len(r.html.tracks) = 0
            THEN Fail(500, "NoCaptions", 0) /\ UNCHANGED track
            ELSE /\ track' = CaptionTrack(r.html.tracks, SelectTrackExact(r.html.tracks))
                 /\ requests' = Append(requests, Endpoint("caption"))
                 /\ pc' = "caption"
                 /\ UNCHANGED <<transcript, source, response>>
    /\ UNCHANGED <<platform, downloadUrl>>
    /\ UNCHANGED <<clientVars, schedVars, parseVars, uploadVars>>
    /\ UNCHANGED <<fn, url, videoId, langIdx, directOutcomes, rapidApiKey>>

\* The caption document arrives (timed-text implementation): the status is
\* not looked at; any non-empty parse result is returned.
CaptionResponseTimedText ==
    /\ fn = "timedtext"
    /\ pc = "caption"
    /\ \E r \in FetchResults(CaptionBodies), key \in BOOLEAN :
         IF r.threw
         THEN Fail(500, "FetchFailed", 0)
         ELSE LET t == parseTranscriptXML(JsString(r.body)).value
              IN  IF t # <<>>
                  THEN Deliver(t, "page", key)
                  ELSE Fail(500, "NoCaptions", 0)
    /\ UNCHANGED <<platform, downloadUrl>>
    /\ UNCHANGED <<clientVars, schedVars, parseVars, uploadVars>>
    /\ reply' = NoReply
    /\ UNCHANGED <<fn, url, videoId, langIdx, directOutcomes, track, rapidApiKey>>

\* youtube-summarize (page-scrape implementation): request received; the
\* video page is requested.
ReceiveScrape ==
    /\ fn = "scrape"
    /\ pc = "start"
    /\ \E bodyOk \in BOOLEAN :
         LET p == Prelude(bodyOk)
         IN  IF ~p.go
             THEN /\ Fail(p.status, p.error, 0)
                  /\ UNCHANGED videoId
             ELSE /\ videoId' = extractVideoId(url).group
                  /\ requests' = Append(requests, Endpoint("page"))
                  /\ pc' = "page"
                  /\ UNCHANGED <<transcript, source, response>>
    /\ UNCHANGED <<platform, downloadUrl>>
    /\ UNCHANGED <<clientVars, schedVars, parseVars, uploadVars, reply>>
    /\ UNCHANGED <<fn, url, langIdx, directOutcomes, track, rapidApiKey>>

\* captionTracks.find(track => track.languageCode?.startsWith('en')), else
\* captionTracks[0].
SelectTrackPrefix(codes) ==
    LET hits == {k \in 1..Len(codes) : StartsWithAt(codes[k], 1, LangEn)}
    IN  IF hits = {} THEN 1 ELSE CHOOSE k \in hits : \A j \in hits : k <= j

\* The video page arrives (page-scrape implementation): every failure is
\* thrown and reaches the handler's catch clause.
PageResponseScrape ==
    /\ fn = "scrape"
    /\ pc = "page"
    /\ \E r \in PageResults :
         /\ reply' = IF r.threw THEN NoReply ELSE Reply("page", r.html)
         /\ IF r.threw
            THEN Fail(500, "FetchFailed", 0) /\ UNCHANGED track
            ELSE IF ~Ok(r)
            THEN Fail(500, "PageStatus", r.status) /\ UNCHANGED track
            ELSE IF r.html.player = "absent"
            THEN Fail(500, "PlayerResponseMissing", 0) /\ UNCHANGED track
            ELSE IF r.html.player = "unparsable"
            THEN Fail(500, "PlayerResponseUnparsable", 0) /\ UNCHANGED track
            ELSE IF r.html.player = "nocaptions"
            THEN Fail(500, "NoCaptions", 0) /\ UNCHANGED track
            ELSE IF Len(r.html.tracks) = 0
            THEN \* captionTracks[0] is undefined: reading its languageCode throws
                 Fail(500, "TypeError", 0) /\ UNCHANGED track
            ELSE /\ track' = CaptionTrack(r.html.tracks, SelectTrackPrefix(r.html.tracks))
                 /\ requests' = Append(requests, Endpoint("caption"))
                 /\ pc' = "caption"
                 /\ UNCHANGED <<transcript, source, response>>
    /\ UNCHANGED <<platform, downloadUrl>>
    /\ UNCHANGED <<clientVars, schedVars, parseVars, uploadVars>>
    /\ UNCHANGED <<fn, url, videoId, langIdx, directOutcomes, rapidApiKey>>

\* The negation of "!transcript || transcript.length < 10".
MeaningfulLength(t) == t # <<>> /\ ~(Len(t) < MinTranscriptLength)

\* The caption document arrives (page-scrape implementation).
CaptionResponseScrape ==
    /\ fn = "scrape"
    /\ pc = "caption"
    /\ \E r \in FetchResults(CaptionBodies), key \in BOOLEAN :
         IF r.threw
         THEN Fail(500, "FetchFailed", 0)
         ELSE IF ~Ok(r)
         THEN Fail(500, "CaptionStatus", r.status)
         ELSE LET t == parseTranscriptXML(JsString(r.body)).value
              IN  IF MeaningfulLength(t)
                  THEN Deliver(t, "page", key)
                  ELSE Fail(500, "NoMeaningfulTranscript", 0)
    /\ UNCHANGED <<platform, downloadUrl>>
    /\ UNCHANGED <<clientVars, schedVars, parseVars, uploadVars>>
    /\ reply' = NoReply
    /\ UNCHANGED <<fn, url, videoId, langIdx, directOutcomes, track, rapidApiKey>>

\* youtube-summarize (third-party API implementation): request received;
\* RAPIDAPI_KEY is looked up and the transcript API requested.
ReceiveRapidApi ==
    /\ fn = "rapidapi"
    /\ pc = "start"
    /\ \E bodyOk \in BOOLEAN, rapidKey \in BOOLEAN :
         LET p == Prelude(bodyOk)
         IN  IF ~p.go
             THEN /\ Fail(p.status, p.error, 0)
                  /\ UNCHANGED <<videoId, rapidApiKey>>
             ELSE IF ~rapidKey
             THEN /\ videoId' = extractVideoId(url).group
                  /\ rapidApiKey' = "unset"
                  /\ Fail(500, "RapidApiKeyMissing", 0)
             ELSE /\ videoId' = extractVideoId(url).group
                  /\ rapidApiKey' = "set"
                  /\ requests' = Append(requests, Endpoint("rapidapi"))
                  /\ pc' = "rapidapi"
                  /\ UNCHANGED <<transcript, source, response>>
    /\ UNCHANGED <<platform, downloadUrl>>
    /\ UNCHANGED <<clientVars, schedVars, parseVars, uploadVars, reply>>
    /\ UNCHANGED <<fn, url, langIdx, directOutcomes, track>>

\* data.transcript.map(segment => segment.text || '').join(' ')
RECURSIVE JoinSegments(_)
JoinSegments(segs) ==
    IF segs = <<>> THEN <<>>
    ELSE IF Len(segs) = 1 THEN segs[1]
    ELSE segs[1] \o <<" ">> \o JoinSegments(Tail(segs))

\* The third-party API answers.
RapidApiResponse ==
    /\ fn = "rapidapi"
    /\ pc = "rapidapi"
    /\ \E r \in RapidResults, key \in BOOLEAN :
         /\ reply' = Reply("rapidapi", r)
         /\ IF r.threw
            THEN Fail(500, "FetchFailed", 0)
            ELSE IF ~Ok(r)
            THEN Fail(500, "RapidApiStatus", r.status)
            ELSE IF r.payload.kind = "malformed"
            THEN Fail(500, "JsonSyntax", 0)
            ELSE IF r.payload.kind = "noarray"
            THEN Fail(500, "RapidApiFormat", 0)
            ELSE LET t == Trim(JoinSegments(r.payload.segments))
                 IN  IF t = <<>>
                     THEN Fail(500, "NoCaptions", 0)
                     ELSE Deliver(t, "rapidapi", key)
    /\ UNCHANGED <<platform, downloadUrl>>
    /\ UNCHANGED <<clientVars, schedVars, parseVars, uploadVars>>
    /\ UNCHANGED <<fn, url, videoId, langIdx, directOutcomes, track, rapidApiKey>>

\* The chat-completions endpoint answers: the handler's last step.
OpenAIResponse ==
    /\ pc = "openai"
    /\ \E r \in OpenAIResults :
         /\ pc' = "done"
         /\ response' =
              IF r.threw THEN Failure(500, "FetchFailed", 0)
              ELSE IF ~Ok(r) THEN Failure(500, "OpenAIStatus", r.status)
              ELSE IF r.payload = "malformed" THEN Failure(500, "JsonSyntax", 0)
              ELSE IF r.payload = "nochoices" THEN Failure(500, "TypeError", 0)
              ELSE Success
    /\ UNCHANGED <<platform, downloadUrl>>
    /\ UNCHANGED <<clientVars, schedVars, parseVars, uploadVars, reply>>
    /\ UNCHANGED <<fn, url, videoId, langIdx, directOutcomes, track, rapidApiKey,
                   transcript, source, requests>>

(***************************************************************************)
(* The youtube-generic-url handler.                                        *)
(***************************************************************************)
\* Answers of the two media-resolution APIs: link tells whether the JSON
\* carries a usable download link.
MediaResults ==
    {[threw |-> TRUE, status |-> 0, payload |-> "none"]}
    \cup {[threw |-> FALSE, status |-> s, payload |-> p] :
            s \in {200, 404}, p \in {"malformed", "nolink", "link"}}

\* const maxSize = 25 * 1024 * 1024
maxSize == 25 * 1024 * 1024

\* Answers of the download URL: byteLength of the downloaded media.
DownloadResults ==
    {[threw |-> TRUE, status |-> 0, size |-> 0]}
    \cup {[threw |-> FALSE, status |-> s, size |-> n] :
            s \in {200, 404}, n \in {1, maxSize, maxSize + 1}}

\* Bodies of the speech-to-text endpoint.
WhisperTexts == {<<>>, <<" ", "\n">>, <<" ">> \o TextHi \o <<"\n">>}

\* if (platform === 'youtube')
IsYouTubePlatform(p) == p = "youtube"

\* Request received: detectPlatform, the YouTube guidance error, then
\* getVideoInfo up to its request to the primary video-info API.
ReceiveGeneric ==
    /\ fn = "generic"
    /\ pc = "start"
    /\ \E bodyOk \in BOOLEAN, rapidKey \in BOOLEAN :
         IF ~bodyOk
         THEN Fail(500, "BodyParse", 0) /\ UNCHANGED <<platform, rapidApiKey>>
         ELSE IF url = <<>>
         THEN Fail(400, "UrlRequired", 0) /\ UNCHANGED <<platform, rapidApiKey>>
         ELSE IF IsYouTubePlatform(detectPlatform(url))
         THEN /\ platform' = detectPlatform(url)
              /\ Fail(400, "UseYouTubeTab", 0)
              /\ UNCHANGED rapidApiKey
         ELSE IF ~rapidKey
         THEN /\ platform' = detectPlatform(url)
              /\ rapidApiKey' = "unset"
              /\ Fail(500, "RapidApiKeyMissing", 0)
         ELSE /\ platform' = detectPlatform(url)
              /\ rapidApiKey' = "set"
              /\ requests' = Append(requests, Endpoint("videoinfo"))
              /\ pc' = "videoinfo"
              /\ UNCHANGED <<transcript, source, response>>
    /\ UNCHANGED <<clientVars, schedVars, parseVars, uploadVars, reply>>
    /\ UNCHANGED <<fn, url, videoId, langIdx, directOutcomes, track, downloadUrl>>

\* The handler's "if (!downloadUrl)" and the start of transcribeFromUrl.
UseDownloadUrl(link, from) ==
    IF ~link
    THEN Fail(400, "UnableToProcess", 0) /\ UNCHANGED downloadUrl
    ELSE /\ downloadUrl' = from
         /\ requests' = Append(requests, Endpoint("download"))
         /\ pc' = "download"
         /\ UNCHANGED <<transcript, source, response>>

\* The primary video-info API answers.
VideoInfoResponse ==
    /\ fn = "generic"
    /\ pc = "videoinfo"
    /\ \E r \in MediaResults :
         IF r.threw
         THEN Fail(500, "FetchFailed", 0) /\ UNCHANGED downloadUrl
         ELSE IF ~Ok(r)
         THEN /\ requests' = Append(requests, Endpoint("alternative"))
              /\ pc' = "alternative"
              /\ UNCHANGED <<transcript, source, response, downloadUrl>>
         ELSE IF r.payload = "malformed"
         THEN Fail(500, "JsonSyntax", 0) /\ UNCHANGED downloadUrl
         ELSE UseDownloadUrl(r.payload = "link", "primary")
    /\ UNCHANGED <<clientVars, schedVars, parseVars, uploadVars, reply>>
    /\ UNCHANGED <<fn, url, videoId, langIdx, directOutcomes, track, rapidApiKey, platform>>

\* The alternative social-media-downloader API answers: every failure inside
\* tryAlternativeExtraction is rethrown as "Could not extract video".
AlternativeResponse ==
    /\ fn = "generic"
    /\ pc = "alternative"
    /\ \E r \in MediaResults :
         IF r.threw \/ ~Ok(r) \/ r.payload = "malformed"
         THEN Fail(500, "CouldNotExtractVideo", 0) /\ UNCHANGED downloadUrl
         ELSE UseDownloadUrl(r.payload = "link", "alternative")
    /\ UNCHANGED <<clientVars, schedVars, parseVars, uploadVars, reply>>
    /\ UNCHANGED <<fn, url, videoId, langIdx, directOutcomes, track, rapidApiKey, platform>>

\* The media download answers: status, size limit, OPENAI_API_KEY, then the
\* speech-to-text request.
DownloadResponse ==
    /\ fn = "generic"
    /\ pc = "download"
    /\ \E r \in DownloadResults, key \in BOOLEAN :
         IF r.threw THEN Fail(500, "FetchFailed", 0)
         ELSE IF ~Ok(r) THEN Fail(500, "DownloadStatus", r.status)
         ELSE IF r.size > maxSize THEN Fail(500, "AudioTooLarge", 0)
         ELSE IF ~key THEN Fail(500, "OpenAIKeyMissing", 0)
         ELSE /\ requests' = Append(requests, Endpoint("whisper"))
              /\ pc' = "whisper"
              /\ UNCHANGED <<transcript, source, response>>
    /\ UNCHANGED <<clientVars, schedVars, parseVars, uploadVars, reply>>
    /\ UNCHANGED <<fn, url, videoId, langIdx, directOutcomes, track, rapidApiKey,
                   platform, downloadUrl>>

\* !transcript || transcript.trim().length === 0 (transcribeFromUrl)
WhisperBlank(t) == t = <<>> \/ Len(Trim(t)) = 0

\* The speech-to-text endpoint answers; the handler then requests the summary
\* (without looking up the key again).
WhisperResponse ==
    /\ fn = "generic"
    /\ pc = "whisper"
    /\ \E r \in FetchResults(WhisperTexts) :
         /\ reply' = Reply("whisper", r)
         /\ IF r.threw THEN Fail(500, "FetchFailed", 0)
            ELSE IF ~Ok(r) THEN Fail(500, "TranscriptionStatus", r.status)
            ELSE IF WhisperBlank(r.body) THEN Fail(500, "NoTranscriptGenerated", 0)
            ELSE IF Trim(r.body) = <<>> THEN Fail(400, "CouldNotTranscribe", 0)
            ELSE /\ transcript' = Trim(r.body)
                 /\ source' = "whisper"
                 /\ requests' = Append(requests, Endpoint("openai"))
                 /\ pc' = "openai"
                 /\ UNCHANGED response
    /\ UNCHANGED <<clientVars, schedVars, parseVars, uploadVars>>
    /\ UNCHANGED <<fn, url, videoId, langIdx, directOutcomes, track, rapidApiKey,
                   platform, downloadUrl>>

(***************************************************************************)
(* The youtube-file-transcribe handler, in its two versions.               *)
(***************************************************************************)
\* The current version (youtube-file-transcribe/index.ts) and the earlier one
\* (base64ToFile keeps the declared type, only the MIME type is validated).
UploadFunctions == {"file", "fileEarlier"}

\* s.endsWith(p)
EndsWith(s, p) == Len(p) <= Len(s) /\ StartsWithAt(s, Len(s) - Len(p) + 1, p)

\* s.lastIndexOf(c), 0-based, -1 when c does not occur.
LastIndexOf(s, c) ==
    LET hits == {i \in 1..Len(s) : s[i] = c}
    IN  IF hits = {} THEN -1 ELSE (CHOOSE i \in hits : \A j \in hits : j <= i) - 1

\* s.substring(start), a negative start counting as 0.
Substring(s, start) ==
    LET from == IF start < 0 THEN 0 ELSE start
    IN  SubSeq(s, from + 1, Len(s))

ExtM4a == <<".", "m", "4", "a">>

supportedTypes ==
    {"audio/mpeg", "audio/wav", "audio/mp4", "video/mp4",
     "video/quicktime", "video/x-msvideo", "video/webm"}

supportedExtensions ==
    {<<".", "m", "p", "3">>, <<".", "w", "a", "v">>, ExtM4a, <<".", "m", "p", "4">>, <<".", "m", "o", "v">>, <<".", "a", "v", "i">>, <<".", "w", "e", "b", "m">>}

\* fileName.toLowerCase().substring(fileName.lastIndexOf('.'))
fileExtension(name) == Substring(ToLowerCase(name), LastIndexOf(name, "."))

\* fileName.toLowerCase().endsWith('.m4a')
IsM4a(name) == EndsWith(ToLowerCase(name), ExtM4a)

\* File names, declared MIME types and base64 payloads of the requests.
FileNames ==
    {<<>>, <<"a", ".", "m", "p", "3">>, <<"v", "i", "d", "e", "o", ".", "m", "4", "a">>, <<"V", ".", "M", "4", "A">>, <<"a", ".", "t", "x", "t">>, <<"m", "4", "a">>}
MimeTypes == {"", "audio/mpeg", "audio/mp4", "audio/x-m4a", "text/plain"}
FileSizes == {1, maxSize, maxSize + 1, 26 * 1024 * 1024}
FileDatas ==
    {NoFileData, [present |-> TRUE, decodes |-> FALSE, byteLength |-> 0]}
    \cup {[present |-> TRUE, decodes |-> TRUE, byteLength |-> n] : n \in FileSizes}

\* base64ToFile of the current version: atob throws on malformed base64 and
\* the error is rethrown; an .m4a name gets the type audio/mp4.
base64ToFile(data, name, type) ==
    IF ~data.decodes
    THEN [threw |-> TRUE, file |-> NoFile]
    ELSE [threw |-> FALSE,
          file |-> [size |-> data.byteLength,
                    type |-> IF IsM4a(name) THEN "audio/mp4" ELSE type]]

\* base64ToFile of the earlier version: the declared type is kept.
base64ToFileEarlier(data, name, type) ==
    IF ~data.decodes
    THEN [threw |-> TRUE, file |-> NoFile]
    ELSE [threw |-> FALSE, file |-> [size |-> data.byteLength, type |-> type]]

\* Mutant of TooLarge: a file of exactly maxSize bytes is rejected as well.
TooLargeInclusive(size) == size >= maxSize

\* audioFile.size > maxSize
TooLarge(size) == size > maxSize

\* const isValidType = supportedTypes.includes(mimeType) ||
\*                     supportedExtensions.includes(fileExtension)
isValidType(name, type) ==
    type \in supportedTypes \/ fileExtension(name) \in supportedExtensions

\* Mutant of Validate: the type is looked at before the size.
ValidateTypeFirst(size, name, type) ==
    IF ~isValidType(name, type) THEN "UnsupportedFileType"
    ELSE IF TooLarge(size) THEN "FileTooLarge"
    ELSE "ok"

\* The size check and the type check of the current version, in the order of
\* the handler.
Validate(size, name, type) ==
    IF TooLarge(size) THEN "FileTooLarge"
    ELSE IF ~isValidType(name, type) THEN "UnsupportedFileType"
    ELSE "ok"

\* The same checks in the earlier version: supportedTypes.includes(mimeType).
ValidateEarlier(size, name, type) ==
    IF TooLarge(size) THEN "FileTooLarge"
    ELSE IF type \notin supportedTypes THEN "UnsupportedFileType"
    ELSE "ok"

\* Mutant of IsBlank: the body is not trimmed before it is tested.
IsBlankUntrimmed(t) == t = <<>>

\* !transcript || transcript.trim().length === 0
IsBlank(t) == t = <<>> \/ Len(Trim(t)) = 0

\* Request received: the required fields, base64ToFile, the size and type
\* checks, then transcribeAudio up to its speech-to-text request.
ReceiveUpload ==
    /\ fn \in UploadFunctions
    /\ pc = "start"
    /\ \E bodyOk \in BOOLEAN, key \in BOOLEAN :
         LET made == IF fn = "file"
                     THEN base64ToFile(fileData, fileName, mimeType)
                     ELSE base64ToFileEarlier(fileData, fileName, mimeType)
             verdict == IF fn = "file"
                        THEN Validate(made.file.size, fileName, mimeType)
                        ELSE ValidateEarlier(made.file.size, fileName, mimeType)
         IN  IF ~bodyOk
             THEN Fail(500, "BodyParse", 0) /\ UNCHANGED audioFile
             ELSE IF ~fileData.present \/ fileName = <<>> \/ mimeType = ""
             THEN Fail(400, "FieldsRequired", 0) /\ UNCHANGED audioFile
             ELSE IF made.threw
             THEN /\ IF fn = "file"
                     THEN Fail(400, "FileConversionFailed", 0)
                     ELSE Fail(500, "Base64Decode", 0)
                  /\ UNCHANGED audioFile
             ELSE /\ audioFile' = made.file
                  /\ IF verdict # "ok"
                     THEN Fail(400, verdict, 0)
                     ELSE IF ~key
                     THEN Fail(500, "OpenAIKeyMissing", 0)
                     ELSE /\ requests' = Append(requests, Endpoint("whisper"))
                          /\ pc' = "transcribe"
                          /\ UNCHANGED <<transcript, source, response>>
    /\ UNCHANGED <<clientVars, schedVars, parseVars>>
    /\ UNCHANGED <<fn, url, videoId, langIdx, directOutcomes, track, rapidApiKey,
                   platform, downloadUrl, fileName, mimeType, fileData, reply>>

\* The speech-to-text endpoint answers (transcribeAudio), then the handler's
\* "if (!transcript)", the second OPENAI_API_KEY lookup (the key was found by
\* transcribeAudio) and the summarization request.
TranscriptionResponse ==
    /\ fn \in UploadFunctions
    /\ pc = "transcribe"
    /\ \E r \in FetchResults(WhisperTexts) :
         /\ reply' = Reply("whisper", r)
         /\ IF r.threw THEN Fail(500, "FetchFailed", 0)
            ELSE IF ~Ok(r) THEN Fail(500, "TranscriptionStatus", r.status)
            ELSE IF IsBlank(r.body) THEN Fail(500, "NoTranscriptGenerated", 0)
            ELSE IF Trim(r.body) = <<>> THEN Fail(400, "CouldNotTranscribe", 0)
            ELSE /\ transcript' = Trim(r.body)
                 /\ source' = "whisper"
                 /\ requests' = Append(requests, Endpoint("openai"))
                 /\ pc' = "openai"
                 /\ UNCHANGED response
    /\ UNCHANGED <<clientVars, schedVars, parseVars, uploadVars>>
    /\ UNCHANGED <<fn, url, videoId, langIdx, directOutcomes, track, rapidApiKey,
                   platform, downloadUrl>>

\* One upload request.
UploadInit ==
    /\ fn \in UploadFunctions
    /\ fileName \in FileNames
    /\ mimeType \in MimeTypes
    /\ fileData \in FileDatas
    /\ audioFile = NoFile
    /\ reply = NoReply
    /\ running = 1
    /\ other = NoInvocation
    /\ ClientIdle
    /\ url = <<>>
    /\ pc = "start"
    /\ videoId = <<>>
    /\ langIdx = 0
    /\ directOutcomes = <<>>
    /\ track = NoTrack
    /\ rapidApiKey = "unread"
    /\ transcript = <<>>
    /\ source = "none"
    /\ requests = <<>>
    /\ response = NoResponse
    /\ platform = "unknown"
    /\ downloadUrl = "none"

(***************************************************************************)
(* Specifications.                                                         *)
(***************************************************************************)
\* One invocation of one of the URL functions.
Init ==
    /\ HandlerInit \/ UploadInit
    /\ xml = JsString(<<>>)
    /\ out = NoResult
    /\ out2 = NoResult
    /\ pstage = "off"

Next ==
    \/ ReceiveTimedText
    \/ TimedTextResponse
    \/ PageResponseTimedText
    \/ CaptionResponseTimedText
    \/ ReceiveScrape
    \/ PageResponseScrape
    \/ CaptionResponseScrape
    \/ ReceiveRapidApi
    \/ RapidApiResponse
    \/ ReceiveGeneric
    \/ VideoInfoResponse
    \/ AlternativeResponse
    \/ DownloadResponse
    \/ WhisperResponse
    \/ ReceiveUpload
    \/ TranscriptionResponse
    \/ OpenAIResponse

Spec == Init /\ [][Next]_vars

\* Every awaited call eventually returns or fails: the step that receives its
\* outcome is eventually taken.  The invocations are those with one of the
\* example URLs (or none) and every upload.
LiveInit == Init /\ url \in UrlExamples \cup {<<>>}

SpecLive == LiveInit /\ [][Next]_vars /\ WF_vars(Next)

(***************************************************************************)
(* Two invocations in flight at once.                                      *)
(***************************************************************************)
\* Every binding of a handler is local to its invocation (const and let
\* inside serve's callback and the helpers); the module level holds only the
\* constant corsHeaders.  Locals is what an invocation keeps across an await.
Locals ==
    [fn |-> fn,
     url |-> url,
     pc |-> pc,
     videoId |-> videoId,
     langIdx |-> langIdx,
     directOutcomes |-> directOutcomes,
     track |-> track,
     rapidApiKey |-> rapidApiKey,
     transcript |-> transcript,
     source |-> source,
     requests |-> requests,
     response |-> response,
     platform |-> platform,
     downloadUrl |-> downloadUrl,
     fileName |-> fileName,
     mimeType |-> mimeType,
     fileData |-> fileData,
     audioFile |-> audioFile,
     reply |-> reply]

\* The locals of an invocation that has not read its request yet.
InitialLocals(f, u, name, type, data) ==
    [fn |-> f, url |-> u, pc |-> "start", videoId |-> <<>>, langIdx |-> 0,
     directOutcomes |-> <<>>, track |-> NoTrack, rapidApiKey |-> "unread",
     transcript |-> <<>>, source |-> "none", requests |-> <<>>,
     response |-> NoResponse, platform |-> "unknown", downloadUrl |-> "none",
     fileName |-> name, mimeType |-> type, fileData |-> data,
     audioFile |-> NoFile, reply |-> NoReply]

\* An invocation of f: https://youtu.be/abc123XYZ for youtube-summarize,
\* video.m4a (audio/x-m4a, one byte) for youtube-file-transcribe.
StartOf(f) ==
    IF f = "file"
    THEN InitialLocals(f, <<>>, <<"v", "i", "d", "e", "o", ".", "m", "4", "a">>, "audio/x-m4a",
                       [present |-> TRUE, decodes |-> TRUE, byteLength |-> 1])
    ELSE InitialLocals(f, UrlShortExample, <<>>, "", NoFileData)

\* The pairs of functions invoked together.
ConcurrentPairs ==
    { <<"rapidapi", "rapidapi">>, <<"rapidapi", "file">>, <<"file", "rapidapi">>,
      <<"file", "file">> }

\* The variables of the running invocation hold the locals l.
Holds(l) ==
    /\ fn = l.fn
    /\ url = l.url
    /\ pc = l.pc
    /\ videoId = l.videoId
    /\ langIdx = l.langIdx
    /\ directOutcomes = l.directOutcomes
    /\ track = l.track
    /\ rapidApiKey = l.rapidApiKey
    /\ transcript = l.transcript
    /\ source = l.source
    /\ requests = l.requests
    /\ response = l.response
    /\ platform = l.platform
    /\ downloadUrl = l.downloadUrl
    /\ fileName = l.fileName
    /\ mimeType = l.mimeType
    /\ fileData = l.fileData
    /\ audioFile = l.audioFile
    /\ reply = l.reply

ConcurrentInit ==
    /\ \E pair \in ConcurrentPairs :
         /\ Holds(StartOf(pair[1]))
         /\ other = StartOf(pair[2])
    /\ running = 1
    /\ ClientIdle
    /\ xml = JsString(<<>>)
    /\ out = NoResult
    /\ out2 = NoResult
    /\ pstage = "off"

\* Mutant of Resumed: the binding is shared, the resumed invocation finds what
\* the other invocation left in it.
ResumedShared(saved, current) == current

\* What a resumed invocation finds in one of its bindings: what it held when
\* it was suspended.
Resumed(saved, current) == saved

\* The running invocation is suspended at its await and the other one is
\* resumed.
Switch ==
    /\ other # NoInvocation
    /\ running' = 3 - running
    /\ other' = Locals
    /\ fn' = Resumed(other.fn, fn)
    /\ url' = Resumed(other.url, url)
    /\ pc' = Resumed(other.pc, pc)
    /\ videoId' = Resumed(other.videoId, videoId)
    /\ langIdx' = Resumed(other.langIdx, langIdx)
    /\ directOutcomes' = Resumed(other.directOutcomes, directOutcomes)
    /\ track' = Resumed(other.track, track)
    /\ rapidApiKey' = Resumed(other.rapidApiKey, rapidApiKey)
    /\ transcript' = Resumed(other.transcript, transcript)
    /\ source' = Resumed(other.source, source)
    /\ requests' = Resumed(other.requests, requests)
    /\ response' = Resumed(other.response, response)
    /\ platform' = Resumed(other.platform, platform)
    /\ downloadUrl' = Resumed(other.downloadUrl, downloadUrl)
    /\ fileName' = Resumed(other.fileName, fileName)
    /\ mimeType' = Resumed(other.mimeType, mimeType)
    /\ fileData' = Resumed(other.fileData, fileData)
    /\ audioFile' = Resumed(other.audioFile, audioFile)
    /\ reply' = Resumed(other.reply, reply)
    /\ UNCHANGED <<parseVars, clientVars>>

ConcurrentNext ==
    \/ ReceiveRapidApi
    \/ RapidApiResponse
    \/ ReceiveUpload
    \/ TranscriptionResponse
    \/ OpenAIResponse
    \/ Switch

SpecConcurrent == ConcurrentInit /\ [][ConcurrentNext]_vars

(***************************************************************************)
(* detectPlatform run on URLs made of platform markers.                    *)
(***************************************************************************)
\* Building blocks: every marker of the table, X.com with a capital and a
\* path character.
MarkerPieces ==
    {PlatformMarkers[k].marker : k \in 1..Len(PlatformMarkers)}
    \cup { <<"X", ".", "c", "o", "m">>, <<"/">> }

DetectUrls == Concats(MarkerPieces, MaxUrlPieces)

DetectInit ==
    /\ fn = "detect"
    /\ url \in DetectUrls
    /\ pc = "start"
    /\ videoId = <<>>
    /\ langIdx = 0
    /\ directOutcomes = <<>>
    /\ track = NoTrack
    /\ rapidApiKey = "unread"
    /\ transcript = <<>>
    /\ source = "none"
    /\ requests = <<>>
    /\ response = NoResponse
    /\ platform = "unknown"
    /\ downloadUrl = "none"
    /\ fileName = <<>>
    /\ mimeType = ""
    /\ fileData = NoFileData
    /\ audioFile = NoFile
    /\ reply = NoReply
    /\ running = 1
    /\ other = NoInvocation
    /\ ClientIdle
    /\ xml = JsString(<<>>)
    /\ out = NoResult
    /\ out2 = NoResult
    /\ pstage = "off"

\* const platform = detectPlatform(url)
Detect ==
    /\ fn = "detect"
    /\ pc = "start"
    /\ platform' = detectPlatform(url)
    /\ pc' = "done"
    /\ UNCHANGED <<clientVars, schedVars, parseVars, uploadVars, reply>>
    /\ UNCHANGED <<fn, url, videoId, langIdx, directOutcomes, track, rapidApiKey,
                   transcript, source, requests, response, downloadUrl>>

SpecDetect == DetectInit /\ [][Detect]_vars

(***************************************************************************)
(* ContextManager: the conversation history kept in localStorage.          *)
(* localStorage accepts every call; the catch clauses of getContext,       *)
(* saveContext and clearContext are for a storage that refuses it.         *)
(***************************************************************************)
\* getContext(): the stored context, or a new one without items.
getContext == IF stored.present THEN stored.items ELSE <<>>

\* Mutant of SliceItems: the first MAX_ITEMS items are kept.
SliceItemsOldest(items) ==
    IF Len(items) > MAX_ITEMS THEN SubSeq(items, 1, MAX_ITEMS) ELSE items

\* if (context.items.length > MAX_ITEMS) context.items = context.items.slice(-MAX_ITEMS)
SliceItems(items) ==
    IF Len(items) > MAX_ITEMS
    THEN SubSeq(items, Len(items) - MAX_ITEMS + 1, Len(items))
    ELSE items

\* saveContext(context): the items are limited and written back.
saveContext(items) == [present |-> TRUE, items |-> SliceItems(items)]

\* The body shared by addTranscription and addFollowUp.
AddItem(type) ==
    /\ LET item == [id |-> nextId + 1, type |-> type]
       IN  /\ stored' = saveContext(Append(getContext, item))
           /\ added' = Append(added, item)
    /\ nextId' = nextId + 1
    /\ latest' = NotAsked
    /\ UNCHANGED <<parseVars, handlerVars, pageVars>>

addTranscription ==
    /\ pc = "off"
    /\ submitPc = "off"
    /\ nextId < MaxAdded
    /\ AddItem("transcription")

addFollowUp ==
    /\ pc = "off"
    /\ submitPc = "off"
    /\ nextId < MaxAdded
    /\ AddItem("follow-up")

\* clearContext(): localStorage.removeItem(STORAGE_KEY)
clearContext ==
    /\ pc = "off"
    /\ submitPc = "off"
    /\ stored.present
    /\ stored' = NoStoredContext
    /\ added' = <<>>
    /\ latest' = NotAsked
    /\ UNCHANGED <<nextId, parseVars, handlerVars, pageVars>>

\* The loop of getLatestTranscription: from the last item down, the first
\* one of type 'transcription', else null.
LastTranscription(items) ==
    LET hits == {i \in 1..Len(items) : items[i].type = "transcription"}
    IN  IF hits = {}
        THEN [asked |-> TRUE, found |-> FALSE, item |-> NotAsked.item]
        ELSE [asked |-> TRUE, found |-> TRUE,
              item |-> items[CHOOSE i \in hits : \A j \in hits : j <= i]]

getLatestTranscription ==
    /\ pc = "off"
    /\ submitPc = "off"
    /\ ~latest.asked
    /\ latest' = LastTranscription(getContext)
    /\ UNCHANGED <<stored, added, nextId, parseVars, handlerVars, pageVars>>

ContextInit ==
    /\ BackendIdle
    /\ ClientIdle

ContextNext ==
    \/ addTranscription
    \/ addFollowUp
    \/ clearContext
    \/ getLatestTranscription

SpecContext == ContextInit /\ [][ContextNext]_vars

(***************************************************************************)
(* The upload page: handleFileSubmit and the timer it leaves behind.       *)
(***************************************************************************)
\* handleFileSelect(file)
handleFileSelect ==
    /\ submitPc = "idle"
    /\ ~isLoading
    /\ selectedFile' = TRUE
    /\ fileError' = FALSE
    /\ UNCHANGED <<isLoading, uploadProgress, result, submitPc, submission, timers>>
    /\ UNCHANGED <<parseVars, handlerVars, contextVars>>

\* The Analyze File button is clicked (disabled={isLoading || !selectedFile}):
\* handleFileSubmit up to the await of the FileReader promise.
handleFileSubmit ==
    /\ submitPc = "idle"
    /\ ~isLoading
    /\ selectedFile
    /\ submission < MaxSubmissions
    /\ submission' = submission + 1
    /\ isLoading' = TRUE
    /\ result' = "none"
    /\ uploadProgress' = 0
    /\ fileError' = FALSE
    /\ submitPc' = "reading"
    /\ UNCHANGED <<selectedFile, timers>>
    /\ UNCHANGED <<parseVars, handlerVars, contextVars>>

\* finally { setIsLoading(false); setTimeout(() => setUploadProgress(0), 1000) }
Finally ==
    /\ isLoading' = FALSE
    /\ timers' = timers \cup {submission}
    /\ submitPc' = "idle"

\* The FileReader promise settles: setUploadProgress(25) and the function is
\* invoked, or reader.onerror rejected and the catch and finally clauses run.
ReaderSettles ==
    /\ submitPc = "reading"
    /\ \E loaded \in BOOLEAN :
         IF loaded
         THEN /\ uploadProgress' = 25
              /\ submitPc' = "invoking"
              /\ UNCHANGED <<isLoading, fileError, timers>>
         ELSE /\ fileError' = TRUE
              /\ Finally
              /\ UNCHANGED uploadProgress
    /\ UNCHANGED <<selectedFile, result, submission>>
    /\ UNCHANGED <<parseVars, handlerVars, contextVars>>

\* supabase.functions.invoke settles: setUploadProgress(75), then either the
\* error is thrown or setUploadProgress(100) and setResult; finally.
InvokeSettles ==
    /\ submitPc = "invoking"
    /\ \E outcome \in {"data", "error", "dataError"} :
         IF outcome = "data"
         THEN /\ uploadProgress' = 100
              /\ result' = "summary"
              /\ UNCHANGED fileError
         ELSE /\ uploadProgress' = 75
              /\ fileError' = TRUE
              /\ UNCHANGED result
    /\ Finally
    /\ UNCHANGED <<selectedFile, submission>>
    /\ UNCHANGED <<parseVars, handlerVars, contextVars>>

\* A timer started by a finally clause fires: setUploadProgress(0).
TimerFires ==
    /\ \E k \in timers :
         timers' = timers \ {k}
    /\ uploadProgress' = 0
    /\ UNCHANGED <<isLoading, selectedFile, fileError, result, submitPc, submission>>
    /\ UNCHANGED <<parseVars, handlerVars, contextVars>>

PageInit ==
    /\ BackendIdle
    /\ ContextIdle
    /\ PageMounted

PageNext ==
    \/ handleFileSelect
    \/ handleFileSubmit
    \/ ReaderSettles
    \/ InvokeSettles
    \/ TimerFires

SpecPage == PageInit /\ [][PageNext]_vars

(***************************************************************************)
(* Claims about parseTranscriptXML (checked under SpecParse).              *)
(***************************************************************************)
\* Every character the model's documents and results are made of.
IsString(v) == v \in Seq(STRING)

\* s holds a <text ...> opening tag followed, after its ">", by a </text>.
HasTextSpan(s) ==
    \E i \in 1..Len(s) :
        /\ StartsWithAt(s, i, TextOpenPrefix)
        /\ \E g \in (i + Len(TextOpenPrefix))..Len(s) :
              s[g] = ">" /\ IndexOfLit(s, TextCloseTag, g + 1) # 0

\* C7: parseTranscriptXML never fails: for every input it returns a string and
\* no exception leaves it, and it returns the empty string when the input holds
\* no <text ...>...</text> span.
C7_ParseNeverFails ==
    out.done =>
        /\ ~out.threw
        /\ IsString(out.value)
        /\ (xml.t = "string" /\ ~HasTextSpan(xml.s) => out.value = <<>>)
        /\ (xml.t # "string" => out.value = <<>>)

\* C7 witness: markup without a complete span (an opening tag that is never
\* closed) was parsed to the empty string.
C7_Witness ==
    /\ out.done
    /\ out.value = <<>>
    /\ xml.t = "string"
    /\ Includes(xml.s, TextOpen \o <<"a">>)
    /\ ~HasTextSpan(xml.s)

\* The spans as C8 describes them: from a <text ...> tag to the next </text>,
\* whatever lies between, newlines included.
RECURSIVE SpansAnyContentFrom(_, _)
SpansAnyContentFrom(s, i) ==
    IF i > Len(s) THEN <<>>
    ELSE LET gt == IF StartsWithAt(s, i, TextOpenPrefix)
                   THEN IndexOfChar(s, ">", i + Len(TextOpenPrefix))
                   ELSE 0
             close == IF gt = 0 THEN 0 ELSE IndexOfLit(s, TextCloseTag, gt + 1)
         IN  IF close # 0
             THEN <<SubSeq(s, gt + 1, close - 1)>>
                  \o SpansAnyContentFrom(s, close + Len(TextCloseTag))
             ELSE SpansAnyContentFrom(s, i + 1)

\* What C8 says parse returns.
ClaimedParse(s) == Trim(JoinSpans(SpansAnyContentFrom(s, 1)))

\* C8 (as claimed): parse returns the cleaned contents of all <text>...</text>
\* spans in document order, newlines inside a span replaced by spaces, joined by
\* single spaces.  Violated: a span holding a newline is not matched at all.
C8_ParseAsClaimed ==
    out.done /\ xml.t = "string" => out.value = ClaimedParse(xml.s)

\* C9 (as claimed): parse(parse(x)) = parse(x) for every input x.
C9_Idempotent ==
    pstage = "reparsed" => out2.value = out.value

\* C9 (amended): parse applied to the output of an earlier parse returns the
\* empty string, so parse(parse(x)) = parse(x) exactly when parse(x) is empty.
C9_ReparseIsEmpty ==
    pstage = "reparsed" =>
        /\ out2.value = <<>>
        /\ (out2.value = out.value <=> out.value = <<>>)

\* C9 witness: a non-empty parse result was parsed again.
C9_Witness ==
    /\ pstage = "reparsed"
    /\ out.value # <<>>
    /\ out2.value = <<>>

(***************************************************************************)
(* Claims about the handlers (checked under Spec).                         *)
(***************************************************************************)
YouTubeFunctions == {"timedtext", "scrape", "rapidapi"}

\* The transcript-acquisition requests sent so far, in order.
AcquisitionRequests ==
    SelectSeq(requests,
              LAMBDA e : e.endpoint \in {"timedtext", "page", "caption", "rapidapi"})

\* Place of a request in the fixed order: timed-text en, en-US, en-GB, the
\* video page, the caption document of the page, the third-party API.
RequestRank(e) ==
    CASE e.endpoint = "timedtext" ->
           CHOOSE k \in 1..3 : <<LangEn, LangEnUS, LangEnGB>>[k] = e.lang
      [] e.endpoint = "page" -> 4
      [] e.endpoint = "caption" -> 5
      [] e.endpoint = "rapidapi" -> 6

Requested(name) == \E k \in 1..Len(requests) : requests[k].endpoint = name

\* C1: the strategies run one after another in the fixed order direct
\* timed-text, page-scrape, third-party API: the requests of an invocation are
\* ordered that way with one request outstanding at a time, the page is
\* requested only after all three timed-text responses came back without a
\* usable transcript, and after a strategy returned a transcript no later
\* strategy's endpoint is requested.
C1_StrategiesInOrder ==
    fn \in YouTubeFunctions =>
        LET acq == AcquisitionRequests
        IN  /\ \A i, j \in 1..Len(acq) : i < j => RequestRank(acq[i]) < RequestRank(acq[j])
            /\ fn = "timedtext" => \A k \in 1..Len(acq) : RequestRank(acq[k]) = k
            /\ pc \in {"lang", "page", "caption", "rapidapi"} =>
                 /\ requests # <<>>
                 /\ requests[Len(requests)].endpoint = (IF pc = "lang" THEN "timedtext" ELSE pc)
            /\ fn = "timedtext" /\ Requested("page") =>
                 /\ Len(directOutcomes) = 3
                 /\ \A k \in 1..3 : directOutcomes[k] # "accepted"
            /\ \A k \in 1..Len(directOutcomes) :
                 directOutcomes[k] = "accepted" =>
                     k = Len(directOutcomes) /\ source = "direct"
            /\ source = "direct" =>
                 ~Requested("page") /\ ~Requested("caption") /\ ~Requested("rapidapi")
            /\ source = "page" => ~Requested("rapidapi")
            /\ source # "none" => transcript # <<>>

\* C1 witness: https://youtu.be/abc123XYZ, the first timed-text response is
\* valid caption XML: the handler ends with the direct strategy's transcript
\* after one timed-text request and the summarization request.
C1_Witness ==
    /\ fn = "timedtext"
    /\ url = UrlShortExample
    /\ videoId = <<"a", "b", "c", "1", "2", "3", "X", "Y", "Z">>
    /\ source = "direct"
    /\ transcript = TextEleven
    /\ requests = <<TimedTextEndpoint(1), Endpoint("openai")>>
    /\ response = Success

\* C2 (as claimed): when no strategy returned a usable transcript, the
\* caption chain fails with NoCaptionsAvailable, never with a transport-level or
\* parse error of the page-scrape strategy.  Violated: a thrown page fetch, a
\* non-2xx page or caption response and unparsable JSON reach the caller.
C2_OnlyNoCaptions ==
    /\ fn \in {"timedtext", "scrape"}
    /\ pc = "done"
    /\ requests # <<>>
    /\ source = "none"
    => response.error \in {"NoCaptions", "NoMeaningfulTranscript"}

AllNoTags ==
    /\ directOutcomes # <<>>
    /\ \A k \in 1..Len(directOutcomes) : directOutcomes[k] = "notags"

\* C3: when every timed-text response was a success without <text> tags, the
\* chain goes on to the page-scrape strategy (all three languages were asked,
\* the fourth request is the video page) and the direct strategy has surfaced
\* no error.
C3_NoTagsProceedsToPage ==
    fn = "timedtext" /\ AllNoTags /\ pc # "lang" =>
        /\ Len(directOutcomes) = 3
        /\ Len(requests) >= 4
        /\ requests[4] = Endpoint("page")
        /\ pc = "page" => response = NoResponse
        /\ source # "direct"

\* C3 witness: three tag-free successes, the video page is being fetched.
C3_Witness ==
    /\ fn = "timedtext"
    /\ directOutcomes = <<"notags", "notags", "notags">>
    /\ pc = "page"
    /\ requests[Len(requests)] = Endpoint("page")

\* C4 (as claimed): a non-2xx response of a non-final strategy's endpoint
\* (timed-text, video page, caption document) never reaches the caller; only
\* the third-party API's does.  Violated by the page-scrape implementation.
C4_NonFinalStatusSwallowed ==
    fn \in YouTubeFunctions /\ response.kind = "error" /\ response.upstream # 0 =>
        requests[Len(requests)].endpoint \notin {"timedtext", "page", "caption"}

\* C5 (as claimed): every transcript accepted from the direct or the
\* page-scrape strategy is longer than 10 characters after trim.  Violated.
C5_AcceptedLongerThanTen ==
    source \in {"direct", "page"} => Len(Trim(transcript)) > 10

\* u holds one of the literals youtube.com/watch?v=, youtu.be/,
\* youtube.com/embed/ followed by a character an id can start with.
MatchesYouTubePattern(u) ==
    \E i \in 1..Len(u), p \in {WatchPrefix, ShortPrefix, EmbedPrefix} :
        /\ StartsWithAt(u, i, p)
        /\ i + Len(p) <= Len(u)
        /\ u[i + Len(p)] \notin IdStop

\* The lower-cased u holds none of the platform markers.
MatchesNoMarker(u) ==
    \A k \in 1..Len(PlatformMarkers) : ~Includes(ToLowerCase(u), PlatformMarkers[k].marker)

Resolved == pc # "start" /\ response.error # "BodyParse"

InvalidReference == response.error \in {"InvalidUrlFormat", "UrlRequired"}

MentionsYouTube(u) ==
    \/ Includes(ToLowerCase(u), PlatformMarkers[1].marker)
    \/ Includes(ToLowerCase(u), PlatformMarkers[2].marker)

\* C10: in the generic-URL function a URL whose platform is youtube is
\* answered with the guidance error and no request (media resolution,
\* download, speech-to-text, summarization) has been sent.
C10_YouTubeRejectedByGeneric ==
    fn = "generic" /\ Resolved /\ (platform = "youtube" \/ MentionsYouTube(url)) =>
        /\ platform = "youtube"
        /\ pc = "done"
        /\ response = Failure(400, "UseYouTubeTab", 0)
        /\ requests = <<>>

\* C10 witness: https://YouTu.be/abc was sent to the generic-URL function.
C10_Witness ==
    /\ fn = "generic"
    /\ url = UrlUpperCase
    /\ platform = "youtube"
    /\ response = Failure(400, "UseYouTubeTab", 0)
    /\ requests = <<>>

(***************************************************************************)
(* Claims about the upload handler (checked under Spec).                   *)
(***************************************************************************)
\* base64ToFile returned a File.
FileMade == fn \in UploadFunctions /\ audioFile # NoFile

\* C11: an uploaded file of more than 25 MiB is answered with FileTooLarge
\* and no request has been sent; a file of 25 MiB or less, 25 MiB exactly
\* included, is never answered with FileTooLarge.
C11_OversizeRejected ==
    FileMade =>
        /\ audioFile.size = fileData.byteLength
        /\ audioFile.size > 25 * 1024 * 1024 =>
             /\ pc = "done"
             /\ response = Failure(400, "FileTooLarge", 0)
             /\ requests = <<>>
        /\ audioFile.size <= 25 * 1024 * 1024 => response.error # "FileTooLarge"

\* C11 witness: a 26 MiB upload was rejected before any request.
C11_Witness ==
    /\ fn = "file"
    /\ audioFile.size = 26 * 1024 * 1024
    /\ response = Failure(400, "FileTooLarge", 0)
    /\ requests = <<>>

\* C12: the size is checked before the type: UnsupportedFileType is answered
\* only for files of at most 25 MiB, and a file that is both too large and of
\* an unsupported type is answered with FileTooLarge.
C12_SizeBeforeType ==
    fn \in UploadFunctions =>
        /\ response.error = "UnsupportedFileType" =>
             FileMade /\ audioFile.size <= 25 * 1024 * 1024
        /\ FileMade /\ audioFile.size > 25 * 1024 * 1024
             /\ mimeType \notin supportedTypes
             /\ fileExtension(fileName) \notin supportedExtensions =>
                response.error = "FileTooLarge"

\* C12 witness: a.txt, declared text/plain, one byte over 25 MiB.
C12_Witness ==
    /\ fn = "file"
    /\ fileName = <<"a", ".", "t", "x", "t">>
    /\ mimeType = "text/plain"
    /\ audioFile.size = 25 * 1024 * 1024 + 1
    /\ response = Failure(400, "FileTooLarge", 0)

\* C13 (as claimed): a file whose name ends in .m4a, whatever its case, is
\* given the type audio/mp4 whatever the declared type, and is not answered
\* with UnsupportedFileType.  Violated by the earlier version of the handler.
C13_M4aNormalized ==
    FileMade /\ EndsWith(ToLowerCase(fileName), <<".", "m", "4", "a">>) =>
        /\ audioFile.type = "audio/mp4"
        /\ response.error # "UnsupportedFileType"

\* The body holds nothing but white space.
WhiteSpaceOnly(body) == \A i \in 1..Len(body) : body[i] \in {" ", "\n", "\t", "\r"}

\* C14: a 2xx answer of the speech-to-text endpoint with an empty or
\* white-space body ends in TranscriptionEmpty: no success, no transcript and
\* no summarization request.
C14_EmptyTranscription ==
    fn \in UploadFunctions \cup {"generic"} =>
        /\ reply.from = "whisper" /\ ~reply.r.threw /\ reply.r.status \in 200..299
             /\ WhiteSpaceOnly(reply.r.body) =>
                /\ pc = "done"
                /\ response = Failure(500, "NoTranscriptGenerated", 0)
                /\ transcript = <<>>
                /\ ~Requested("openai")
        /\ response = Success => transcript # <<>> /\ ~WhiteSpaceOnly(transcript)

\* C14 witness: the speech-to-text endpoint answered 200 with " \n" to an
\* upload.
C14_Witness ==
    /\ fn = "file"
    /\ reply = Reply("whisper", [threw |-> FALSE, status |-> 200, body |-> <<" ", "\n">>])
    /\ response = Failure(500, "NoTranscriptGenerated", 0)
    /\ requests = <<Endpoint("whisper")>>

(***************************************************************************)
(* Claims about every handler.                                             *)
(***************************************************************************)
Terminal == pc = "done"

\* C15: every invocation ends (SpecLive: every awaited call returns or
\* fails), and it ends in one outcome: a success that carries a transcript or
\* a failure that carries a status and a message; the outcome is not replaced
\* and no step ends outside the two.
C15_OneTerminalOutcome ==
    /\ [](Terminal <=> response # NoResponse)
    /\ [](response.kind = "result" => response = Success /\ transcript # <<>>)
    /\ [](response.kind = "error" =>
            response.status \in {400, 500} /\ response.error # "none")
    /\ [](pc \in {"start", "lang", "page", "caption", "rapidapi", "openai", "videoinfo",
                  "alternative", "download", "whisper", "transcribe", "done"})
    /\ [][~Terminal]_vars
    /\ <>Terminal

\* C15 witness: the caption-track literal of a scraped page was not valid
\* JSON; the SyntaxError ended as a failure response.
C15_Witness ==
    /\ fn = "timedtext"
    /\ Terminal
    /\ reply.from = "page"
    /\ reply.r.raw = "unparsable"
    /\ response = Failure(500, "JsonSyntax", 0)

\* Where the pipeline stands: Idle before the request is read, Extracting
\* while a request of the handler is awaited, Done or Failed once it answered.
Stage ==
    IF pc = "start" THEN "Idle"
    ELSE IF pc # "done" THEN "Extracting"
    ELSE IF response.kind = "result" THEN "Done"
    ELSE "Failed"

StageSuccessors(st) ==
    CASE st = "Idle" -> {"Extracting", "Failed"}
      [] st = "Extracting" -> {"Extracting", "Done", "Failed"}
      [] OTHER -> {}

\* C16: the pipeline moves along Idle, Resolving, Extracting, Done or
\* Failed only: a request is awaited only after the reference was resolved, a
\* failed resolution ends in Failed with no request sent, nothing follows Done
\* or Failed, and the answer is a success with a transcript or a failure with an
\* error, never both.
C16_StateMachine ==
    /\ [][Stage' \in StageSuccessors(Stage)]_vars
    /\ [](Stage \in {"Extracting", "Done"} /\ fn \in YouTubeFunctions =>
            MatchesYouTubePattern(url) /\ videoId # <<>>)
    /\ [](Stage \in {"Extracting", "Done"} /\ fn = "generic" =>
            platform \notin {"unknown", "youtube"})
    /\ [](Stage \in {"Extracting", "Done"} /\ fn \in UploadFunctions => FileMade)
    /\ [](fn \in YouTubeFunctions /\ Stage # "Idle" /\ ~MatchesYouTubePattern(url) =>
            Stage = "Failed" /\ requests = <<>>)
    /\ [](Stage = "Done" <=> response = Success)
    /\ [](Stage = "Done" => transcript # <<>> /\ response.error = "none")
    /\ [](Stage = "Failed" <=> response.kind = "error")
    /\ [](Stage = "Failed" => response.error # "none")
    /\ [](Stage \in {"Idle", "Extracting"} => response = NoResponse)

\* C16 witness: https://vimeo.com/123 sent to youtube-summarize: resolution
\* failed, the pipeline is in Failed and no request was sent.
C16_Witness ==
    /\ fn \in YouTubeFunctions
    /\ url = UrlVimeo
    /\ Stage = "Failed"
    /\ videoId = <<>>
    /\ requests = <<>>

(***************************************************************************)
(* Claims about the caption strategies (checked under Spec).               *)
(***************************************************************************)
\* C18 (as claimed): the third-party transcript API is requested only with
\* a configured key and only after the page-native strategies (timed-text and
\* page scrape) have been tried and have failed; what it returns is the trimmed
\* join of the segments, accepted only when not empty.  Violated: the API is
\* the first request of the implementation that uses it.
C18_ApiAsLastResort ==
    /\ \A k \in 1..Len(requests) :
         requests[k].endpoint = "rapidapi" =>
             /\ rapidApiKey = "set"
             /\ \E j \in 1..(k - 1) : requests[j].endpoint = "timedtext"
             /\ \E j \in 1..(k - 1) : requests[j].endpoint = "page"
    /\ rapidApiKey = "unset" => ~Requested("rapidapi")
    /\ source = "rapidapi" =>
         /\ transcript = Trim(JoinSegments(reply.r.payload.segments))
         /\ transcript # <<>>

\* C19 (as claimed): when the page has no usable ytInitialPlayerResponse but
\* its text holds a caption-track array, the page-scrape implementation goes
\* on with a track of that array instead of failing.  Violated.
C19_RawFallback ==
    /\ fn = "scrape"
    /\ reply.from = "page"
    /\ response.error # "PageStatus"
    /\ reply.r.player \in {"absent", "unparsable"}
    /\ reply.r.raw = "array"
    /\ reply.r.tracks # <<>>
    => /\ pc = "caption"
       /\ \E k \in 1..Len(reply.r.tracks) : track = CaptionTrack(reply.r.tracks, k)

\* The first track whose language code starts with en, else the first track.
FirstEnglishOrFirst(codes) ==
    LET en == {k \in 1..Len(codes) :
                 Len(codes[k]) >= 2 /\ codes[k][1] = "e" /\ codes[k][2] = "n"}
    IN  IF en = {} THEN 1 ELSE CHOOSE k \in en : \A j \in en : k <= j

\* C20 (as claimed): from a non-empty caption-track list the first track
\* whose language code starts with en is selected, and the first track of the
\* list exactly when there is none.  Violated by the timed-text
\* implementation, which looks for en and en-US only.
C20_TrackSelection ==
    pc = "caption" /\ reply.from = "page" =>
        track = CaptionTrack(reply.r.tracks, FirstEnglishOrFirst(reply.r.tracks))

(***************************************************************************)
(* Claims about concurrent invocations (checked under SpecConcurrent).     *)
(***************************************************************************)
\* The requests a function sends.
EndpointsOf(f) ==
    CASE f = "rapidapi" -> {"rapidapi", "openai"}
      [] f = "file" -> {"whisper", "openai"}

\* The locals l hold nothing but what follows from the invocation's own input
\* and the responses to its own requests.
OwnStateOnly(l) ==
    /\ l.fn = "file" <=> l.url = <<>>
    /\ l.fn = "file" <=> l.fileName # <<>>
    /\ \A k \in 1..Len(l.requests) : l.requests[k].endpoint \in EndpointsOf(l.fn)
    /\ l.videoId # <<>> => l.fn # "file" /\ l.videoId = extractVideoId(l.url).group
    /\ l.audioFile # NoFile => l.fn = "file" /\ l.audioFile.size = l.fileData.byteLength
    /\ l.source = "rapidapi" =>
         /\ l.fn = "rapidapi"
         /\ l.reply.from = "rapidapi"
         /\ l.transcript = Trim(JoinSegments(l.reply.r.payload.segments))
    /\ l.source = "whisper" =>
         /\ l.fn = "file"
         /\ l.reply.from = "whisper"
         /\ l.transcript = Trim(l.reply.r.body)
    /\ l.source \in {"rapidapi", "whisper", "none"}
    /\ l.source = "none" => l.transcript = <<>>
    /\ l.pc = "done" <=> l.response # NoResponse
    /\ l.response = Success => l.transcript # <<>>

TimedTextRequests == SelectSeq(requests, LAMBDA e : e.endpoint = "timedtext")

\* C21: the direct strategy asks for en, en-US, en-GB in that order; a
\* response that threw, was not 2xx, had no <text> tag or parsed to nothing is
\* followed by the request for the next language (after en-GB, by the video
\* page); the first 2xx response whose body parses to non-empty text ends the
\* loop, no further language is asked and that text is the transcript.
C21_DirectLanguagesInOrder ==
    fn = "timedtext" =>
        LET tt == TimedTextRequests
            n == Len(directOutcomes)
        IN  /\ Len(tt) <= 3
            /\ \A k \in 1..Len(tt) :
                 /\ requests[k] = tt[k]
                 /\ tt[k].lang = <<LangEn, LangEnUS, LangEnGB>>[k]
            /\ \A k \in 1..n :
                 directOutcomes[k] # "accepted" =>
                     /\ Len(requests) > k
                     /\ requests[k + 1].endpoint = (IF k < 3 THEN "timedtext" ELSE "page")
            /\ \A k \in 1..n :
                 directOutcomes[k] = "accepted" =>
                     /\ k = n
                     /\ Len(tt) = k
                     /\ source = "direct"
                     /\ reply.from = "timedtext"
                     /\ Ok(reply.r)
                     /\ transcript = parseTranscriptXML(JsString(reply.r.body)).value
                     /\ transcript # <<>>
                     /\ pc \in {"openai", "done"}

\* C21 witness: en threw, en-US was not 2xx, en-GB gave <text>Hi</text>.
C21_Witness ==
    /\ fn = "timedtext"
    /\ directOutcomes = <<"threw", "non2xx", "accepted">>
    /\ TimedTextRequests = <<TimedTextEndpoint(1), TimedTextEndpoint(2), TimedTextEndpoint(3)>>
    /\ source = "direct"
    /\ transcript = TextHi

(***************************************************************************)
(* Claims about parseTranscriptXML, continued (checked under SpecParse).   *)
(***************************************************************************)
\* The six entity replacements, in the order of the replace chain.
DecodeEntities(g) ==
    LET a == ReplaceAll(g, EntAmp, <<"&">>)
        b == ReplaceAll(a, EntLt, <<"<">>)
        c == ReplaceAll(b, EntGt, <<">">>)
        d == ReplaceAll(c, EntQuot, <<"\"">>)
        e == ReplaceAll(d, EntApos, <<"'">>)
    IN  ReplaceAll(e, EntNbsp, <<" ">>)

\* A span cleaned as claimed: only the tags present in the raw span are
\* removed, the characters an entity decodes to stay in the output.
SpanKeepingEncodedTags(g) ==
    Trim(ReplaceAll(DecodeEntities(StripTags(g)), <<"\n">>, <<" ">>))

RECURSIVE JoinKeepingEncodedTags(_)
JoinKeepingEncodedTags(groups) ==
    IF groups = <<>> THEN <<>>
    ELSE LET text == SpanKeepingEncodedTags(Head(groups))
         IN  (IF text # <<>> THEN text \o <<" ">> ELSE <<>>)
             \o JoinKeepingEncodedTags(Tail(groups))

\* C22 (as claimed): encoded angle brackets are not mistaken for markup: the
\* output of parse holds the characters the entities of a span decode to, and
\* only tags present in the raw span are stripped.  Violated: the tag-stripping
\* replace runs after the entity replaces, so &lt;b&gt;x&lt;/b&gt; comes out
\* as x.
C22_EncodedTagsKept ==
    pstage # "input" /\ xml.t = "string" =>
        out.value = Trim(JoinKeepingEncodedTags(TextMatches(xml.s)))

(***************************************************************************)
(* Claims about detectPlatform (checked under SpecDetect).                 *)
(***************************************************************************)
\* The platforms in the order the claim gives.
PlatformOrder ==
    <<"youtube", "vimeo", "tiktok", "instagram", "twitter", "facebook", "dailymotion",
      "twitch">>

\* A marker of platform p occurs in the lower-cased u.
MarkerOccurs(p, u) ==
    \E k \in 1..Len(PlatformMarkers) :
        /\ PlatformMarkers[k].platform = p
        /\ Includes(ToLowerCase(u), PlatformMarkers[k].marker)

\* C23: detectPlatform returns the earliest platform, in the order youtube,
\* vimeo, tiktok, instagram, twitter, facebook, dailymotion, twitch, of which
\* a marker occurs in the lower-cased URL, wherever in the URL the markers
\* stand, and generic exactly when no marker occurs.
C23_FirstMarkerInOrder ==
    fn = "detect" /\ pc = "done" =>
        LET hits == {k \in 1..Len(PlatformOrder) : MarkerOccurs(PlatformOrder[k], url)}
        IN  /\ platform = "generic" <=> hits = {}
            /\ hits # {} =>
                 \E k \in hits :
                     /\ platform = PlatformOrder[k]
                     /\ \A j \in hits : k <= j

\* C23 witness: X.comvimeo.com holds a twitter marker (with a capital) before a
\* vimeo marker; the result is vimeo.
C23_Witness ==
    /\ fn = "detect"
    /\ pc = "done"
    /\ url = <<"X", ".", "c", "o", "m", "v", "i", "m", "e", "o", ".", "c", "o", "m">>
    /\ platform = "vimeo"

(***************************************************************************)
(* Claims about the generic-URL handler, continued (checked under Spec).   *)
(***************************************************************************)
\* Position of the first request to an endpoint, 0 when there is none.
FirstRequest(name) ==
    IF Requested(name)
    THEN CHOOSE k \in 1..Len(requests) :
             /\ requests[k].endpoint = name
             /\ \A j \in 1..(k - 1) : requests[j].endpoint # name
    ELSE 0

\* C24 (as claimed): the alternative API is requested only after the primary
\* one, the media download and the transcription only after one of the two gave
\* a media URL, and an invocation that asked the primary API and ended without
\* a media URL has tried the alternative API before failing.  Violated: a
\* thrown primary fetch, unparsable primary JSON and a 2xx primary answer
\* without a link end the invocation without the alternative request.
C24_AlternativeOnEveryPrimaryFailure ==
    fn = "generic" =>
        /\ Requested("alternative") =>
             /\ Requested("videoinfo")
             /\ FirstRequest("videoinfo") < FirstRequest("alternative")
        /\ Requested("download") \/ Requested("whisper") => downloadUrl # "none"
        /\ pc = "done" /\ Requested("videoinfo") /\ downloadUrl = "none" =>
             Requested("alternative")

(***************************************************************************)
(* Claims about the upload handler, continued (checked under Spec).        *)
(***************************************************************************)
\* C25 (as claimed): a file within the size limit is answered with
\* UnsupportedFileType exactly when neither its declared MIME type nor the
\* extension of its name is in the supported sets; otherwise it is submitted
\* for transcription.  Violated by the earlier version of the handler, which
\* looks at the declared MIME type only.
C25_TypeOrExtension ==
    FileMade /\ ~(audioFile.size > maxSize) =>
        LET supported ==
                \/ mimeType \in supportedTypes
                \/ fileExtension(fileName) \in supportedExtensions
        IN  /\ response.error = "UnsupportedFileType" <=> ~supported
            /\ supported /\ response.error # "OpenAIKeyMissing" =>
                 Requested("whisper")

(***************************************************************************)
(* Claims about all handlers (checked under Spec).                         *)
(***************************************************************************)
\* Number of requests sent to an endpoint.
RequestCount(name) == Len(SelectSeq(requests, LAMBDA e : e.endpoint = name))

\* The speech-to-text call of this invocation failed.
TranscriptionFailed ==
    /\ reply.from = "whisper"
    /\ reply.r.threw \/ ~Ok(reply.r)

\* C26: no retries: an invocation sends at most one submission to the
\* speech-to-text endpoint and at most one summarization request, no request
\* is sent twice, and after a failed speech-to-text or summarization call the
\* invocation has ended with an error, the failed request being its last.
C26_NoRetries ==
    /\ RequestCount("whisper") <= 1
    /\ RequestCount("openai") <= 1
    /\ \A i, j \in 1..Len(requests) : requests[i] = requests[j] => i = j
    /\ TranscriptionFailed =>
         /\ pc = "done"
         /\ response.kind = "error"
         /\ requests[Len(requests)].endpoint = "whisper"
    /\ response.error = "OpenAIStatus" =>
         /\ pc = "done"
         /\ requests[Len(requests)].endpoint = "openai"

\* C26 witness: the speech-to-text endpoint answered the upload's only
\* submission with 404; the invocation ended with that error.
C26_Witness ==
    /\ fn = "file"
    /\ reply.from = "whisper"
    /\ ~reply.r.threw
    /\ reply.r.status = 404
    /\ RequestCount("whisper") = 1
    /\ response = Failure(500, "TranscriptionStatus", 404)

\* The request to the chat-completions endpoint is the last one sent.
SummaryRequestedLast ==
    /\ requests # <<>>
    /\ requests[Len(requests)].endpoint = "openai"
    /\ RequestCount("openai") = 1

\* C27: in every handler the summarization request is sent only once a
\* strategy or the transcription has given a transcript that holds more than
\* white space, it is the last request of the invocation, the transcript is
\* not changed afterwards and every success response carries it; an
\* invocation that acquired no transcript sends no summarization request.
C27_SummaryOnlyAfterTranscript ==
    /\ [](Requested("openai") =>
            /\ SummaryRequestedLast
            /\ source # "none"
            /\ ~WhiteSpaceOnly(transcript))
    /\ [](source = "none" => ~Requested("openai") /\ response # Success)
    /\ [](response = Success =>
            /\ pc = "done"
            /\ Requested("openai")
            /\ ~WhiteSpaceOnly(transcript))
    /\ [][Requested("openai") => transcript' = transcript /\ source' = source]_vars

\* C27 witness: the generic handler got " Hi\n" from the speech-to-text
\* endpoint and answered with the summary and the transcript Hi.
C27_Witness ==
    /\ fn = "generic"
    /\ reply = Reply("whisper", [threw |-> FALSE, status |-> 200,
                                 body |-> <<" ", "H", "i", "\n">>])
    /\ transcript = <<"H", "i">>
    /\ SummaryRequestedLast
    /\ response = Success

(***************************************************************************)
(* Claims about ContextManager (checked under SpecContext).                *)
(***************************************************************************)
\* The stored history: context.items of getContext().
StoredItems == IF stored.present THEN stored.items ELSE <<>>

AddedTranscriptions == SelectSeq(added, LAMBDA item : item.type = "transcription")

\* C29 (as claimed): getLatestTranscription returns the transcription item
\* added last since the last clearContext, however many follow-ups were added
\* after it, and null only when no transcription was added.  Violated: ten
\* follow-ups after a transcription evict it from the stored history.
C29_LatestTranscriptionKept ==
    latest.asked =>
        IF AddedTranscriptions = <<>>
        THEN ~latest.found
        ELSE /\ latest.found
             /\ latest.item = AddedTranscriptions[Len(AddedTranscriptions)]

(***************************************************************************)
(* Claims about the upload page (checked under SpecPage).                  *)
(***************************************************************************)
\* C30 (as claimed): while a submission is in flight uploadProgress never
\* decreases, it takes only the values 0, 25, 75, 100, it is reset to 0 only
\* when no submission is in flight, and isLoading is false after every
\* submission.  Violated: the timer of a finished submission fires while the
\* next one is in flight and sets its progress back to 0.
C30_ProgressNeverDecreases ==
    /\ [](uploadProgress \in {0, 25, 75, 100})
    /\ [](submitPc = "idle" => ~isLoading)
    /\ [][isLoading /\ isLoading' => uploadProgress' >= uploadProgress]_vars
    /\ [][uploadProgress # 0 /\ uploadProgress' = 0 => ~isLoading]_vars

====
